---- MODULE Spec2Model ----
(***************************************************************************)
(* Two-level cache (L1 in-process table, L2 Redis), cache-aside handlers,  *)
(* real-time propagation and backup/recovery of the E-Learning backend.    *)
(*                                                                         *)
(* One step of a handler is the stretch of code between two suspension     *)
(* points: it starts with the effect of the awaited L2 / source-of-record  *)
(* call and runs the synchronous code up to the next awaited call.  L1     *)
(* operations never suspend, so they are part of the enclosing step.       *)
(***************************************************************************)
EXTENDS Integers, Sequences, FiniteSets, TLC

\* ---------------------------------------------------------------- bounds
NumCourses == 1
NumReaders == 2
MaxVer == 2
TickLen == 150
MaxNow == 450
MaxChan == 2
NumSockets == 2
NumRequests == 2
NumInstructors == 2
MaxBackups == 2
ShortTtl == 100
LongTtl == 300

\* ------------------------------------------------------ program constants
COURSE_TTL == 300
COURSE_LIST_TTL == 120
PROGRESS_TTL == 600
DASHBOARD_TTL == 300
COURSE_ANALYTICS_TTL == 600
STUDENT_ANALYTICS_TTL == 1200
PLATFORM_ANALYTICS_TTL == 2700

Courses == 1..NumCourses
Readers == 1..NumReaders
Users == {1}
ListHashes == {1}
InvalidCourseId == 0

VARIABLES
    db,        \* courses collection: course id -> version (0 = no document)
    pdb,       \* progress collection: <<user, course>> -> version (0 = none)
    l1,        \* memory_cache._store: key -> [exp, val]
    l2,        \* Redis keyspace: key -> [val, exp, type]
    now,       \* the clock (seconds)
    redisUp,   \* L2 reachable
    locks,     \* memory_cache._locks: key -> 0 (free) or the holding reader
    rd,        \* get_course invocations
    wr,        \* the write handler in flight
    inv,       \* the invalidate_course_cache handler in flight
    hist,      \* history of source lookups and results (observation only)
    probe,     \* last L1 set / get seen by the L1 contract check
    connections,             \* RealTimeAnalytics.connections
    instructor_connections,  \* RealTimeAnalytics.instructor_connections
    ws,        \* websockets: state and messages received
    lis,       \* listen_analytics_updates task
    chan,      \* messages delivered to the listener's pubsub, not yet read
    rec,       \* recovery requests
    in_progress, \* CacheRecoveryService._recovery_in_progress per instance
    snaps,     \* backup metadata records and blobs
    job,       \* warm_courses_cache run: sub-tasks attempted and failed
    prd,       \* the get_course_progress invocation
    aq         \* the analytics reads in flight, one per caller

cvars == <<db, pdb, l1, l2, now, redisUp, locks, rd, wr, inv, hist>>
tvars == <<connections, instructor_connections, ws, lis, chan>>
rvars == <<rec, in_progress, snaps, job, prd, aq>>
vars == <<db, pdb, l1, l2, now, redisUp, locks, rd, wr, inv, hist, probe,
          connections, instructor_connections, ws, lis, chan,
          rec, in_progress, snaps, job, prd, aq>>

\* ------------------------------------------------------------- documents
\* enc is the number of JSON encodings applied: 0 is the dict itself,
\* 1 the JSON text of the dict, 2 the JSON text of a JSON string.
NoDoc == [kind |-> "none", id |-> 0, ver |-> 0, enc |-> 0]
CourseDoc(c, v) == [kind |-> "course", id |-> c, ver |-> v, enc |-> 0]
ProgressDoc(u, c, v) == [kind |-> "progress", id |-> u * 100 + c, ver |-> v, enc |-> 0]
Payload(kind) == [kind |-> kind, id |-> 0, ver |-> 0, enc |-> 0]

Dumps(x) == [x EXCEPT !.enc = @ + 1]
Loads(x) == [x EXCEPT !.enc = @ - 1]
Truthy(x) == x.kind # "none"
\* A stored text that is not JSON: json.loads raises JSONDecodeError on it.
Garbage == [kind |-> "garbage", id |-> 0, ver |-> 0, enc |-> 1]
Decodable(x) == x.kind # "garbage"

\* ------------------------------------------------------------ cache keys
course_key(c) == <<"course", c, 0>>
courses_list_key(h) == <<"courses_list", h, 0>>
progress_key(u, c) == <<"progress", u, c>>
user_dashboard_key(u) == <<"user_dashboard", u, 0>>
analytics_course_key(c) == <<"analytics:course", c, 0>>
analytics_platform_overview_key == <<"analytics:platform:overview", 0, 0>>
analytics_student_patterns_key(u) == <<"analytics:student:patterns", u, 0>>
HITS_HASH == <<"cache_stats:hits", 0, 0>>
MISSES_HASH == <<"cache_stats:misses", 0, 0>>
HasPrefix(k, p) == k[1] = p

\* ---------------------------------------------------------- function ops
Put(f, k, e) == [x \in DOMAIN f \cup {k} |-> IF x = k THEN e ELSE f[x]]
Drop(f, ks) == [x \in DOMAIN f \ ks |-> f[x]]
EmptyMap == [x \in {} |-> 0]

\* ------------------------------------------------------- L1 memory cache
\* Faulty variant of MemExpired: entries never expire.
MemNeverExpired(store, k, t) == FALSE

MemExpired(store, k, t) == store[k].exp # 0 /\ t > store[k].exp

MemGetVal(store, k, t) ==
    IF k \notin DOMAIN store THEN NoDoc
    ELSE IF MemExpired(store, k, t) THEN NoDoc
    ELSE store[k].val

MemGetStore(store, k, t) ==
    IF k \in DOMAIN store /\ MemExpired(store, k, t) THEN Drop(store, {k})
    ELSE store

MemSet(store, k, v, ttl, t) ==
    Put(store, k, [exp |-> IF ttl > 0 THEN t + ttl ELSE 0, val |-> v])

MemDelete(store, k) == Drop(store, {k})

\* Faulty variant of MemPatternDelete: the prefix matches no key.
MemPatternKept(store, prefix) == store

MemPatternDelete(store, prefix) ==
    Drop(store, {k \in DOMAIN store : HasPrefix(k, prefix)})

\* ------------------------------------------------------------- L2 Redis
\* Expired keys are removed when the clock advances, so DOMAIN l2 is the
\* visible keyspace.
RedisGet(k) == IF k \in DOMAIN l2 THEN l2[k].val ELSE NoDoc
\* Faulty variant of RedisSet: the value is not stored.
RedisSetDropped(store, k, v, ex, t) == store

RedisSet(store, k, v, ex, t) ==
    Put(store, k, [val |-> v, exp |-> IF ex > 0 THEN t + ex ELSE 0, type |-> "string"])
RedisDelete(store, ks) == Drop(store, ks)
RedisScan(store, prefix) == {k \in DOMAIN store : HasPrefix(k, prefix)}
RedisHIncr(store, k) ==
    IF k \in DOMAIN store THEN store
    ELSE Put(store, k, [val |-> Payload("counter"), exp |-> 0, type |-> "hash"])
RedisLive(store, t) ==
    [k \in {x \in DOMAIN store : store[x].exp = 0 \/ t < store[x].exp} |-> store[k]]


\* The state of the real-time and the recovery components.
Others == <<probe, connections, instructor_connections, ws, lis, rec, in_progress,
           snaps, job, prd, aq>>

\* ------------------------------------------------------------ processes
\* Process ids: the readers are 1..NumReaders.
Writer == NumReaders + 1
Invalidator == NumReaders + 2
KindOf(p) == IF p = Writer THEN "writer" ELSE IF p = Invalidator THEN "inv" ELSE "reader"

NoRes == [st |-> "none", out |-> NoDoc]
Ok(d) == [st |-> "ok", out |-> d]
NotFound == [st |-> "notfound", out |-> NoDoc]
Err == [st |-> "err", out |-> NoDoc]

\* dup: a call that ran beside this one has looked the course up in the
\* source and found nothing.
IdleReader ==
    [pc |-> "idle", c |-> 1, doc |-> NoDoc, cold |-> FALSE, taint |-> FALSE,
     dup |-> FALSE]

\* ------------------------------------------------- observation (history)
\* ep follows one operation (a write, an invalidation or a cold read) and
\* the first get_course started after it returned: res and src are what the
\* operation returned, nres and nsrc what that get_course returned.  intr
\* collects the kinds of the other handlers that were in flight when the
\* operation started or took a step before it returned, post the kinds of
\* those that took a step between its return and the return of that
\* get_course.
NoEpoch ==
    [kind |-> "none", own |-> 0, c |-> 0, phase |-> "none", intr |-> {}, post |-> {},
     next |-> 0,
     at |-> 0, inTtl |-> FALSE, res |-> NoRes, src |-> "none", nsub |-> 0, nplat |-> 0,
     nres |-> NoRes, nsrc |-> "none"]

EpTouch(e, p) ==
    IF e.kind = "none" THEN e
    ELSE IF e.phase = "fin" THEN NoEpoch
    ELSE IF p = e.own \/ p = e.next THEN e
    ELSE IF e.phase = "open" THEN [e EXCEPT !.intr = @ \cup {KindOf(p)}]
    ELSE [e EXCEPT !.post = @ \cup {KindOf(p)}]

\* The kinds of the handlers other than p that are in flight.
InFlight(p) ==
    {KindOf(q) : q \in ({r \in Readers : rd[r].pc # "idle"}
                         \cup (IF wr.pc # "idle" THEN {Writer} ELSE {})
                         \cup (IF inv.pc # "idle" THEN {Invalidator} ELSE {})) \ {p}}

EpOpen(kind, p, c) ==
    [NoEpoch EXCEPT !.kind = kind, !.own = p, !.c = c, !.phase = "open",
                    !.intr = InFlight(p)]

\* Handler p returns result (read from src; nsub and nplat events published).
EpReturn(e, p, result, src, nsub, nplat, t) ==
    IF e.kind # "none" /\ e.phase = "open" /\ e.own = p
    THEN IF result.st = "ok"
         THEN [e EXCEPT !.phase = "done", !.res = result, !.src = src, !.at = t,
                        !.nsub = nsub, !.nplat = nplat]
         ELSE NoEpoch
    ELSE IF e.kind # "none" /\ e.phase = "next" /\ e.next = p
    THEN [e EXCEPT !.phase = "fin", !.nres = result, !.nsrc = src]
    ELSE EpTouch(e, p)

Disturb(h, c) == [h EXCEPT !.dbReads[c] = 0, !.seen[c] = {}]

TaintAll(rdf, c) ==
    [r \in Readers |->
        IF rdf[r].pc # "idle" /\ rdf[r].c = c THEN [rdf[r] EXCEPT !.taint = TRUE]
        ELSE rdf[r]]

\* ---------------------------------------------------------- lock registry
\* memory_cache.get_lock: the lock of a key is created on first use.
\* Faulty variant of LockFree: a lock that never excludes anybody.
LockNeverHeld(k) == TRUE

LockFree(k) == k \notin DOMAIN locks \/ locks[k] = 0
Acquire(k, r) == Put(locks, k, r)

\* Faulty variant of Release: the lock stays with the caller that left.
ReleaseSkipped(lk, k, r) == lk

Release(lk, k, r) == IF k \in DOMAIN lk /\ lk[k] = r THEN [lk EXCEPT ![k] = 0] ELSE lk

\* --------------------------------------------------------------- get_course
\* The reader returns: result, lock released, history updated.
Returned(r, result, src) ==
    LET me == rd[r] IN
    /\ locks' = Release(locks, course_key(me.c), r)
    /\ hist' = [hist EXCEPT
                  !.seen[me.c] = IF me.cold /\ ~me.taint /\ result.st = "ok"
                                 THEN @ \cup {result.out} ELSE @,
                  !.rerr = IF result.st = "err" THEN me.pc ELSE @,
                  !.ep = EpReturn(@, r, result, src, 0, 0, now)]

Return(r, result, src) ==
    /\ rd' = [rd EXCEPT ![r] = IdleReader]
    /\ Returned(r, result, src)

\* Lines 51-60: first L1 look-up, then the per-key lock.
RStart(r, c) ==
    LET key == course_key(c)
        cached == MemGetVal(l1, key, now)
        isCold == ~Truthy(cached) /\ key \notin DOMAIN l2 /\ db[c] # 0
        e == hist.ep
        me == [IdleReader EXCEPT !.c = c, !.cold = isCold]
    IN
    /\ rd[r].pc = "idle"
    /\ l1' = MemGetStore(l1, key, now)
    /\ hist' = [hist EXCEPT !.ep =
                  IF e.kind # "none" /\ e.phase = "done" /\ e.c = c
                  THEN [e EXCEPT !.phase = "next", !.next = r,
                                 !.inTtl = (now < e.at + COURSE_TTL)]
                  ELSE IF isCold THEN EpOpen("read", r, c)
                  ELSE EpTouch(e, r)]
    /\ IF Truthy(cached)
       THEN /\ rd' = [rd EXCEPT ![r] = [me EXCEPT !.pc = "hit_l1", !.doc = cached]]
            /\ UNCHANGED locks
       ELSE IF LockFree(key)
       THEN /\ rd' = [rd EXCEPT ![r] = [me EXCEPT !.pc = "l2get"]]
            /\ locks' = Acquire(key, r)
       ELSE /\ rd' = [rd EXCEPT ![r] = [me EXCEPT !.pc = "wait"]]
            /\ UNCHANGED locks
    /\ UNCHANGED <<db, pdb, l2, now, redisUp, wr, inv, chan, Others>>

\* Lines 61-66: the lock is acquired and L1 is checked again.
RAcquire(r) ==
    LET me == rd[r]
        key == course_key(me.c)
        cached == MemGetVal(l1, key, now)
    IN
    /\ me.pc = "wait"
    /\ LockFree(key)
    /\ locks' = Acquire(key, r)
    /\ l1' = MemGetStore(l1, key, now)
    /\ rd' = [rd EXCEPT ![r] = IF Truthy(cached)
                               THEN [me EXCEPT !.pc = "hit_lk", !.doc = cached]
                               ELSE [me EXCEPT !.pc = "l2get"]]
    /\ hist' = [hist EXCEPT !.ep = EpTouch(@, r)]
    /\ UNCHANGED <<db, pdb, l2, now, redisUp, wr, inv, chan, Others>>

\* Lines 56-57, 65-66, 73-74: hit(r, "courses"), then the cached value.
RHit(r) ==
    LET me == rd[r] IN
    /\ me.pc \in {"hit_l1", "hit_lk", "hit_l2"}
    /\ IF redisUp
       THEN /\ l2' = RedisHIncr(l2, HITS_HASH)
            /\ Return(r, Ok(me.doc), IF me.pc = "hit_l2" THEN "l2" ELSE "l1")
       ELSE /\ UNCHANGED l2
            /\ Return(r, Err, "none")
    /\ UNCHANGED <<db, pdb, l1, now, redisUp, wr, inv, chan, Others>>

\* Lines 69-72: r.get(key); on a hit the payload is loaded into L1.
\* json.loads (line 71) is not guarded: a payload that is not JSON raises
\* out of the handler, the lock is released and the key stays in L2.
RL2Get(r) ==
    LET me == rd[r]
        key == course_key(me.c)
        cached_l2 == RedisGet(key)
    IN
    /\ me.pc = "l2get"
    /\ IF ~redisUp
       THEN /\ Return(r, Err, "none")
            /\ UNCHANGED l1
       ELSE IF Truthy(cached_l2) /\ ~Decodable(cached_l2)
       THEN /\ Return(r, Err, "none")
            /\ UNCHANGED l1
       ELSE IF Truthy(cached_l2)
       THEN /\ l1' = MemSet(l1, key, Loads(cached_l2), COURSE_TTL, now)
            /\ rd' = [rd EXCEPT ![r] = [me EXCEPT !.pc = "hit_l2", !.doc = Loads(cached_l2)]]
            /\ hist' = [hist EXCEPT !.ep = EpTouch(@, r)]
            /\ UNCHANGED locks
       ELSE /\ rd' = [rd EXCEPT ![r] = [me EXCEPT !.pc = "miss"]]
            /\ hist' = [hist EXCEPT !.ep = EpTouch(@, r)]
            /\ UNCHANGED <<l1, locks>>
    /\ UNCHANGED <<db, pdb, l2, now, redisUp, wr, inv, chan, Others>>

\* Line 77: miss(r, "courses").
RMiss(r) ==
    LET me == rd[r] IN
    /\ me.pc = "miss"
    /\ IF redisUp
       THEN /\ l2' = RedisHIncr(l2, MISSES_HASH)
            /\ rd' = [rd EXCEPT ![r] = [me EXCEPT !.pc = "dbfetch"]]
            /\ hist' = [hist EXCEPT !.ep = EpTouch(@, r)]
            /\ UNCHANGED locks
       ELSE /\ UNCHANGED l2
            /\ Return(r, Err, "none")
    /\ UNCHANGED <<db, pdb, l1, now, redisUp, wr, inv, chan, Others>>

\* Faulty variant of RDbFetch: the outcome of the look-up is stored in both
\* tiers whether or not a document was found.
RDbFetchNegative(r) ==
    LET me == rd[r] IN
    /\ me.pc = "dbfetch"
    /\ rd' = [rd EXCEPT ![r] = [me EXCEPT !.pc = "l2set",
                                          !.doc = CourseDoc(me.c, db[me.c])]]
    /\ hist' = [hist EXCEPT !.ep = EpTouch(@, r)]
    /\ UNCHANGED <<db, pdb, l1, l2, now, redisUp, locks, wr, inv, chan, Others>>

\* Lines 78-79, 83: repo.get_course_by_id; "not found" is returned uncached.
RDbFetch(r) ==
    LET me == rd[r]
        found == db[me.c] # 0
    IN
    /\ me.pc = "dbfetch"
    /\ IF found
       THEN /\ rd' = [rd EXCEPT ![r] = [me EXCEPT !.pc = "l2set",
                                                   !.doc = CourseDoc(me.c, db[me.c])]]
            /\ hist' = [hist EXCEPT
                          !.dbReads[me.c] = IF me.cold /\ ~me.taint /\ @ < 2 THEN @ + 1 ELSE @,
                          !.ep = EpTouch(@, r)]
            /\ UNCHANGED locks
       ELSE /\ Returned(r, NotFound, "db")
            /\ rd' = [q \in Readers |->
                        IF q = r THEN IdleReader
                        ELSE IF rd[q].pc # "idle" /\ rd[q].c = me.c
                        THEN [rd[q] EXCEPT !.dup = TRUE]
                        ELSE rd[q]]
    /\ UNCHANGED <<db, pdb, l1, l2, now, redisUp, wr, inv, chan, Others>>

\* Lines 81-83: the document is stored in L2, then in L1, and returned.
RL2Set(r) ==
    LET me == rd[r]
        key == course_key(me.c)
    IN
    /\ me.pc = "l2set"
    /\ IF redisUp
       THEN /\ l2' = RedisSet(l2, key, Dumps(me.doc), COURSE_TTL, now)
            /\ l1' = MemSet(l1, key, me.doc, COURSE_TTL, now)
            /\ Return(r, Ok(me.doc), "db")
       ELSE /\ UNCHANGED <<l1, l2>>
            /\ Return(r, Err, "none")
    /\ UNCHANGED <<db, pdb, now, redisUp, wr, inv, chan, Others>>

\* Lines 78-79: the look-up in the source raises (the database cannot be
\* reached); the exception leaves the handler through "async with lock".
RDbRaise(r) ==
    /\ rd[r].pc = "dbfetch"
    /\ Return(r, Err, "none")
    /\ UNCHANGED <<db, pdb, l1, l2, now, redisUp, wr, inv, chan, Others>>

\* The steps of a reader that holds the lock or needs none.
RStep(r) ==
    RHit(r) \/ RL2Get(r) \/ RMiss(r) \/ RDbFetch(r) \/ RL2Set(r) \/ RDbRaise(r)

get_course(r) ==
    \/ \E c \in Courses : RStart(r, c)
    \/ RAcquire(r)
    \/ RHit(r)
    \/ RL2Get(r)
    \/ RMiss(r)
    \/ RDbFetch(r)
    \/ RL2Set(r)

\* ------------------------------------------------------ get_course_progress
\* The process id of the progress reader (lock holder).
ProgressReader == NumReaders + 3

\* A course_performance, student_patterns or platform_overview call: the
\* key it reads, its ttl and kind, whether both tiers lacked the key when
\* it looked, and the aggregate it has computed.
IdleAnalytics ==
    [pc |-> "idle", key |-> analytics_platform_overview_key, ttl |-> 0, kind |-> "none",
     cold |-> FALSE, doc |-> NoDoc]

\* A get_course_progress invocation; res is the result of the last one.
IdleProgressReader == [pc |-> "idle", u |-> 1, c |-> 1, doc |-> NoDoc, res |-> NoRes]

\* The invocation returns: the `async with lock` block is left.
PReturn(result) ==
    /\ prd' = [IdleProgressReader EXCEPT !.res = result]
    /\ locks' = Release(locks, progress_key(prd.u, prd.c), ProgressReader)

\* Lines 129-141: L1 look-up, per-key lock, L1 look-up again.  The reader
\* waits while another holder has the lock of the key.
PStart(u, c) ==
    LET key == progress_key(u, c)
        cached == MemGetVal(l1, key, now)
        me == [IdleProgressReader EXCEPT !.u = u, !.c = c]
    IN
    /\ prd.pc = "idle"
    /\ l1' = MemGetStore(l1, key, now)
    /\ IF Truthy(cached)
       THEN /\ prd' = [me EXCEPT !.pc = "hit", !.doc = cached]
            /\ UNCHANGED locks
       ELSE IF LockFree(key)
       THEN /\ prd' = [me EXCEPT !.pc = "l2get"]
            /\ locks' = Acquire(key, ProgressReader)
       ELSE FALSE
    /\ UNCHANGED <<db, pdb, l2, now, redisUp, rd, wr, inv, hist, probe, tvars,
                   rec, in_progress, snaps, job, aq>>

\* Lines 133-134, 140-141, 147-148: hit(r, "progress"), then the value.
PHit ==
    /\ prd.pc = "hit"
    /\ IF redisUp
       THEN /\ l2' = RedisHIncr(l2, HITS_HASH)
            /\ PReturn(Ok(prd.doc))
       ELSE /\ UNCHANGED l2
            /\ PReturn(Err)
    /\ UNCHANGED <<db, pdb, l1, now, redisUp, rd, wr, inv, hist, probe, tvars,
                   rec, in_progress, snaps, job, aq>>

\* Lines 143-146: r.get(key); json.loads is not guarded; on a hit the
\* payload is stored in L1.
PL2Get ==
    LET key == progress_key(prd.u, prd.c)
        cached_l2 == RedisGet(key)
    IN
    /\ prd.pc = "l2get"
    /\ IF ~redisUp \/ (Truthy(cached_l2) /\ ~Decodable(cached_l2))
       THEN /\ PReturn(Err)
            /\ UNCHANGED l1
       ELSE IF Truthy(cached_l2)
       THEN /\ l1' = MemSet(l1, key, Loads(cached_l2), PROGRESS_TTL, now)
            /\ prd' = [prd EXCEPT !.pc = "hit", !.doc = Loads(cached_l2)]
            /\ UNCHANGED locks
       ELSE /\ prd' = [prd EXCEPT !.pc = "miss"]
            /\ UNCHANGED <<l1, locks>>
    /\ UNCHANGED <<db, pdb, l2, now, redisUp, rd, wr, inv, hist, probe, tvars,
                   rec, in_progress, snaps, job, aq>>

\* Line 150: miss(r, "progress").
PMiss ==
    /\ prd.pc = "miss"
    /\ IF redisUp
       THEN /\ l2' = RedisHIncr(l2, MISSES_HASH)
            /\ prd' = [prd EXCEPT !.pc = "dbfetch"]
            /\ UNCHANGED locks
       ELSE /\ UNCHANGED l2
            /\ PReturn(Err)
    /\ UNCHANGED <<db, pdb, l1, now, redisUp, rd, wr, inv, hist, probe, tvars,
                   rec, in_progress, snaps, job, aq>>

\* Lines 151-152, 156: repo.get_user_course_progress; without a document
\* None is returned and nothing is cached.
PDbFetch ==
    LET v == pdb[<<prd.u, prd.c>>] IN
    /\ prd.pc = "dbfetch"
    /\ IF v # 0
       THEN /\ prd' = [prd EXCEPT !.pc = "l2set", !.doc = ProgressDoc(prd.u, prd.c, v)]
            /\ UNCHANGED locks
       ELSE PReturn(NotFound)
    /\ UNCHANGED <<db, pdb, l1, l2, now, redisUp, rd, wr, inv, hist, probe, tvars,
                   rec, in_progress, snaps, job, aq>>

\* Lines 153-156: the document is stored in L2, then in L1, and returned.
PL2Set ==
    LET key == progress_key(prd.u, prd.c)
        serialized == Dumps(prd.doc) IN
    /\ prd.pc = "l2set"
    /\ IF redisUp
       THEN /\ l2' = RedisSet(l2, key, serialized, PROGRESS_TTL, now)
            /\ l1' = MemSet(l1, key, Loads(serialized), PROGRESS_TTL, now)
            /\ PReturn(Ok(prd.doc))
       ELSE /\ UNCHANGED <<l1, l2>>
            /\ PReturn(Err)
    /\ UNCHANGED <<db, pdb, now, redisUp, rd, wr, inv, hist, probe, tvars,
                   rec, in_progress, snaps, job, aq>>

get_course_progress ==
    \/ \E u \in Users, c \in Courses : PStart(u, c)
    \/ PHit
    \/ PL2Get
    \/ PMiss
    \/ PDbFetch
    \/ PL2Set

\* ------------------------------------------------------------- pub/sub
\* r.publish(channel, message): Redis hands the message to the clients
\* subscribed at that moment; with no subscriber it is dropped.
Platform == 0
Subscribed == lis.sub /\ ~lis.lost
CanPublish == ~Subscribed \/ ~redisUp \/ Len(chan) < MaxChan
Publish(q, subject, event) ==
    IF Subscribed
    THEN Append(q, [course_id |-> subject, event |-> event, ver |-> wr.doc.ver])
    ELSE q

\* ---------------------------------------------------------- write handlers
\* A write handler: doc is the document its mutation returned, keys the L2
\* keys it has still to delete, nsub and nplat the events it has published,
\* seeded tells that it has written its primary key through.
IdleWriter ==
    [pc |-> "idle", op |-> "none", c |-> 1, u |-> 1, doc |-> NoDoc, keys |-> {},
     nsub |-> 0, nplat |-> 0, seeded |-> FALSE]

CourseOps == {"create_course", "update_course_module", "replace_course"}
ProgressOps == {"complete_lesson", "track_video_watch_time"}

\* Faulty variant of ProgressInvalidated: the platform overview is left out.
ProgressInvalidatedLocal(u, c) ==
    {progress_key(u, c), user_dashboard_key(u), analytics_course_key(c),
     analytics_student_patterns_key(u)}

\* The keys complete_lesson and track_video_watch_time invalidate.
ProgressInvalidated(u, c) ==
    {progress_key(u, c), user_dashboard_key(u), analytics_course_key(c),
     analytics_student_patterns_key(u), analytics_platform_overview_key}

WReturn(w, result) ==
    /\ wr' = IdleWriter
    /\ hist' = [hist EXCEPT !.ep = EpReturn(@, Writer, result, "none", w.nsub, w.nplat, now)]

WStep(w) ==
    /\ wr' = w
    /\ hist' = [hist EXCEPT !.ep = EpTouch(@, Writer)]

\* A step that changes the course document or the course key: the readers
\* in flight no longer belong to an undisturbed group of concurrent reads.
WStepCourse(w) ==
    /\ wr' = w
    /\ hist' = [Disturb(hist, w.c) EXCEPT !.ep = EpTouch(@, Writer)]
    /\ rd' = TaintAll(rd, w.c)

WReturnCourse(w, result) ==
    /\ wr' = IdleWriter
    /\ hist' = [Disturb(hist, w.c) EXCEPT
                  !.ep = EpReturn(@, Writer, result, "none", w.nsub, w.nplat, now)]
    /\ rd' = TaintAll(rd, w.c)

\* create_course, line 127: repo.insert_course.
WCreate(c) ==
    LET w == [IdleWriter EXCEPT !.op = "create_course", !.c = c,
                                !.doc = CourseDoc(c, 1), !.pc = "scan"] IN
    /\ wr.pc = "idle"
    /\ db[c] = 0
    /\ db' = [db EXCEPT ![c] = 1]
    /\ wr' = w
    /\ hist' = [Disturb(hist, c) EXCEPT !.ep = EpOpen("create_course", Writer, c)]
    /\ rd' = TaintAll(rd, c)
    /\ UNCHANGED <<pdb, l1, l2, now, redisUp, locks, inv, chan, Others>>

\* update_course_module lines 160-164 and replace_course lines 181-185:
\* the source-of-record mutation, then the L1 copy of the key is deleted.
WUpdate(op, c, matched) ==
    LET found == db[c] # 0 /\ (op = "replace_course" \/ matched)
        w == [IdleWriter EXCEPT !.op = op, !.c = c] IN
    /\ wr.pc = "idle"
    /\ op \in {"update_course_module", "replace_course"}
    /\ db[c] < MaxVer
    /\ IF found
       THEN /\ db' = [db EXCEPT ![c] = @ + 1]
            /\ l1' = MemDelete(l1, course_key(c))
            /\ wr' = [w EXCEPT !.doc = CourseDoc(c, db[c] + 1), !.pc = "delkey"]
            /\ hist' = [Disturb(hist, c) EXCEPT !.ep = EpOpen(op, Writer, c)]
            /\ rd' = TaintAll(rd, c)
       ELSE /\ wr' = IdleWriter
            /\ hist' = [hist EXCEPT !.ep = EpTouch(@, Writer)]
            /\ UNCHANGED <<db, l1, rd>>
    /\ UNCHANGED <<pdb, l2, now, redisUp, locks, inv, chan, Others>>

\* Faulty variant of WRaise: the key is dropped from L1 although the
\* mutation did not succeed.
WRaiseInvalidating(op, c, applied) ==
    /\ wr.pc = "idle"
    /\ op \in {"update_course_module", "replace_course"}
    /\ l1' = MemDelete(l1, course_key(c))
    /\ hist' = [hist EXCEPT !.ep = EpTouch(@, Writer)]
    /\ UNCHANGED <<db, pdb, l2, now, redisUp, locks, rd, wr, inv, chan, Others>>

\* update_course_module line 160 and replace_course line 181: the mutation
\* raises (repos/courses.py: ObjectId of a malformed id, or the database
\* failing at one of the calls of update_module lines 81-98 or
\* replace_course lines 75-76).  The exception leaves the handler; the
\* first update of the document may or may not have been applied.
WRaise(op, c, applied) ==
    /\ wr.pc = "idle"
    /\ op \in {"update_course_module", "replace_course"}
    /\ applied => (db[c] # 0 /\ db[c] < MaxVer)
    /\ IF applied
       THEN /\ db' = [db EXCEPT ![c] = @ + 1]
            /\ hist' = [Disturb(hist, c) EXCEPT !.ep = NoEpoch]
            /\ rd' = TaintAll(rd, c)
       ELSE /\ hist' = [hist EXCEPT !.ep = EpTouch(@, Writer)]
            /\ UNCHANGED <<db, rd>>
    /\ UNCHANGED <<pdb, l1, l2, now, redisUp, locks, wr, inv, chan, Others>>

\* r.delete(key), lines 164 and 185.
WDelKey ==
    /\ wr.pc = "delkey"
    /\ IF redisUp
       THEN /\ l2' = RedisDelete(l2, {course_key(wr.c)})
            /\ WStepCourse([wr EXCEPT !.pc = "scan"])
       ELSE /\ UNCHANGED l2
            /\ WReturnCourse(wr, Err)
    /\ UNCHANGED <<db, pdb, l1, now, redisUp, locks, inv, chan, Others>>

\* _invalidate_course_lists, lines 195-203: scan, delete what was found,
\* and after the last page the L1 prefix delete.
WScan ==
    LET keys == RedisScan(l2, "courses_list") IN
    /\ wr.pc = "scan"
    /\ IF ~redisUp
       THEN /\ WReturn(wr, Err)
            /\ UNCHANGED l1
       ELSE IF keys # {}
       THEN /\ WStep([wr EXCEPT !.pc = "dellist", !.keys = keys])
            /\ UNCHANGED l1
       ELSE /\ l1' = MemPatternDelete(l1, "courses_list")
            /\ WStep([wr EXCEPT !.pc = "set"])
    /\ UNCHANGED <<db, pdb, l2, now, redisUp, locks, rd, inv, chan, Others>>

WDelList ==
    /\ wr.pc = "dellist"
    /\ IF redisUp
       THEN /\ l2' = RedisDelete(l2, wr.keys)
            /\ l1' = MemPatternDelete(l1, "courses_list")
            /\ WStep([wr EXCEPT !.pc = "set", !.keys = {}])
       ELSE /\ UNCHANGED <<l1, l2>>
            /\ WReturn(wr, Err)
    /\ UNCHANGED <<db, pdb, now, redisUp, locks, rd, inv, chan, Others>>

\* What the handler stores in L2 under the course key: lines 132, 167, 188.
SeedValue(op, doc) ==
    IF op = "replace_course" THEN Dumps(Dumps(doc)) ELSE Dumps(doc)

\* Faulty variant of SeedL1: the serialised payload is stored in L1.
SeedL1Serialised(store, key, doc, t) == MemSet(store, key, Dumps(doc), COURSE_TTL, t)

\* What the handler stores in L1 under the course key: lines 133, 168, 189.
SeedL1(store, key, doc, t) == MemSet(store, key, doc, COURSE_TTL, t)

\* Write-through of the course key: r.set, then L1 set; create_course goes
\* on to delete the platform overview from L1, replace_course returns.
WSet ==
    LET key == course_key(wr.c)
        seeded == SeedL1(l1, key, wr.doc, now) IN
    /\ wr.pc = "set"
    /\ IF ~redisUp
       THEN /\ UNCHANGED <<l1, l2>>
            /\ WReturnCourse(wr, Err)
       ELSE /\ l2' = RedisSet(l2, key, SeedValue(wr.op, wr.doc), COURSE_TTL, now)
            /\ IF wr.op = "create_course"
               THEN /\ l1' = MemDelete(seeded, analytics_platform_overview_key)
                    /\ WStepCourse([wr EXCEPT !.pc = "delplat", !.seeded = TRUE])
               ELSE IF wr.op = "update_course_module"
               THEN /\ l1' = seeded
                    /\ WStepCourse([wr EXCEPT !.pc = "pub1", !.seeded = TRUE])
               ELSE /\ l1' = seeded
                    /\ WReturnCourse(wr, Ok(wr.doc))
    /\ UNCHANGED <<db, pdb, now, redisUp, locks, inv, chan, Others>>

\* create_course line 139: r.delete(platform_key).
WDelPlat ==
    /\ wr.pc = "delplat"
    /\ IF redisUp
       THEN /\ l2' = RedisDelete(l2, {analytics_platform_overview_key})
            /\ WStep([wr EXCEPT !.pc = "pub1"])
       ELSE /\ UNCHANGED l2
            /\ WReturn(wr, Err)
    /\ UNCHANGED <<db, pdb, l1, now, redisUp, locks, rd, inv, chan, Others>>

\* Which handlers publish a second event on the platform channel.
PublishesPlatform(op) ==
    op \in {"create_course", "complete_lesson", "track_video_watch_time"}

\* publish_analytics_update on the channel of the subject; a failing
\* r.publish is caught and printed (realtime_analytics.py lines 57-72).
WPub1 ==
    /\ wr.pc = "pub1"
    /\ CanPublish
    /\ chan' = IF redisUp THEN Publish(chan, wr.c, wr.op) ELSE chan
    /\ LET w == [wr EXCEPT !.nsub = IF redisUp THEN @ + 1 ELSE @] IN
       IF PublishesPlatform(wr.op)
       THEN WStep([w EXCEPT !.pc = "pub2"])
       ELSE WReturn(w, Ok(w.doc))
    /\ UNCHANGED <<db, pdb, l1, l2, now, redisUp, locks, rd, inv, Others>>

WPub2 ==
    /\ wr.pc = "pub2"
    /\ CanPublish
    /\ chan' = IF redisUp THEN Publish(chan, Platform, "platform_update") ELSE chan
    /\ LET w == [wr EXCEPT !.nplat = IF redisUp THEN @ + 1 ELSE @] IN
       WReturn(w, Ok(w.doc))
    /\ UNCHANGED <<db, pdb, l1, l2, now, redisUp, locks, rd, inv, Others>>

\* complete_lesson line 83 and track_video_watch_time line 42:
\* _assert_lesson_belongs_to_course raises when the course or the lesson
\* is missing.
WProgress(op, u, c, lessonInCourse) ==
    LET w == [IdleWriter EXCEPT !.op = op, !.c = c, !.u = u] IN
    /\ wr.pc = "idle"
    /\ op \in ProgressOps
    /\ pdb[<<u, c>>] < MaxVer
    /\ IF db[c] # 0 /\ lessonInCourse
       THEN wr' = [w EXCEPT !.pc = "upsert"]
       ELSE wr' = IdleWriter
    /\ hist' = [hist EXCEPT !.ep = EpTouch(@, Writer)]
    /\ UNCHANGED <<db, pdb, l1, l2, now, redisUp, locks, rd, inv, chan, Others>>

\* repo.upsert_lesson_completion / repo.update_video_watch_time, then the
\* gather of lines 54-60 / 96-102 starts: its five L1 deletes run at once,
\* its five r.delete calls are in flight together.
WUpsert ==
    LET u == wr.u
        c == wr.c
        gone == ProgressInvalidated(u, c) IN
    /\ wr.pc = "upsert"
    /\ pdb' = [pdb EXCEPT ![<<u, c>>] = @ + 1]
    /\ l1' = Drop(l1, gone)
    /\ wr' = [wr EXCEPT !.doc = ProgressDoc(u, c, pdb[<<u, c>>] + 1),
                        !.pc = "gdel", !.keys = gone]
    /\ hist' = [hist EXCEPT !.ep = EpOpen(wr.op, Writer, c)]
    /\ UNCHANGED <<db, l2, now, redisUp, locks, rd, inv, chan, Others>>

\* One r.delete of the gather takes effect; after the last one
\* complete_lesson seeds the progress key, track_video_watch_time publishes.
WGDel(k) ==
    LET left == wr.keys \ {k} IN
    /\ wr.pc = "gdel"
    /\ k \in wr.keys
    /\ IF redisUp
       THEN /\ l2' = RedisDelete(l2, {k})
            /\ WStep([wr EXCEPT !.keys = left,
                                !.pc = IF left # {} THEN "gdel"
                                       ELSE IF wr.op = "complete_lesson" THEN "pset"
                                       ELSE "pub1"])
       ELSE /\ UNCHANGED l2
            /\ WReturn(wr, Err)
    /\ UNCHANGED <<db, pdb, l1, now, redisUp, locks, rd, inv, chan, Others>>

\* complete_lesson lines 105-107: the progress key is seeded in L2 and L1.
WPSet ==
    LET ck == progress_key(wr.u, wr.c)
        serialized == Dumps(wr.doc) IN
    /\ wr.pc = "pset"
    /\ IF redisUp
       THEN /\ l2' = RedisSet(l2, ck, serialized, PROGRESS_TTL, now)
            /\ l1' = MemSet(l1, ck, Loads(serialized), PROGRESS_TTL, now)
            /\ WStep([wr EXCEPT !.pc = "pub1", !.seeded = TRUE])
       ELSE /\ UNCHANGED <<l1, l2>>
            /\ WReturn(wr, Err)
    /\ UNCHANGED <<db, pdb, now, redisUp, locks, rd, inv, chan, Others>>

course_write ==
    \/ \E c \in Courses : WCreate(c)
    \/ \E op \in {"update_course_module", "replace_course"}, c \in Courses, m \in BOOLEAN :
          WUpdate(op, c, m)
    \/ WDelKey
    \/ WScan
    \/ WDelList
    \/ WSet
    \/ WDelPlat
    \/ WPub1
    \/ WPub2

progress_write ==
    \/ \E op \in ProgressOps, u \in Users, c \in Courses, b \in BOOLEAN : WProgress(op, u, c, b)
    \/ WUpsert
    \/ \E k \in wr.keys : WGDel(k)
    \/ WPSet
    \/ WPub1
    \/ WPub2

\* -------------------------------------------------- invalidate_course_cache
IdleInv == [pc |-> "idle", c |-> 1, del3 |-> TRUE, sc |-> "done", keys |-> {},
            raised |-> FALSE]

\* ObjectId(course_id) of line 23 accepts the ids of existing courses only.
ValidObjectId(c) == c \in Courses

\* The L1 side of lines 34-40: the course key, its analytics key and the
\* list pages.
InvalidateL1(store, c) ==
    MemPatternDelete(MemDelete(MemDelete(store, course_key(c)), analytics_course_key(c)),
                     "courses_list")

\* Faulty variant of InvalidateL2Keys: the course key is left in L2.
InvalidateL2AnalyticsOnly(c) == {analytics_course_key(c)}

\* The keys r.delete(key, analytics_key) of line 37 removes.
InvalidateL2Keys(c) == {course_key(c), analytics_course_key(c)}

\* The gather of lines 34-40 ends when r.delete and the pattern delete have
\* both ended; a failure of either is raised to the caller at once while the
\* other one runs on.
IAdvance(i, failed) ==
    LET j == [i EXCEPT !.raised = @ \/ failed]
        over == j.del3 /\ j.sc = "done" IN
    /\ inv' = IF over THEN IdleInv ELSE j
    /\ rd' = TaintAll(rd, i.c)
    /\ hist' = [Disturb(hist, i.c) EXCEPT
                  !.ep = IF over /\ ~j.raised
                         THEN EpReturn(@, Invalidator, Ok(NoDoc), "none", 0, 0, now)
                         ELSE IF failed /\ ~i.raised
                         THEN EpReturn(@, Invalidator, Err, "none", 0, 0, now)
                         ELSE EpTouch(@, Invalidator)]

\* Lines 18-40: validation, then the gather starts: the three L1 deletes
\* run to their end, r.delete and the first scan are sent.
IStart(c) ==
    /\ inv.pc = "idle"
    /\ IF ValidObjectId(c)
       THEN /\ l1' = InvalidateL1(l1, c)
            /\ inv' = [IdleInv EXCEPT !.pc = "run", !.c = c, !.del3 = FALSE, !.sc = "scan"]
            /\ rd' = TaintAll(rd, c)
            /\ hist' = [Disturb(hist, c) EXCEPT !.ep = EpOpen("invalidate", Invalidator, c)]
       ELSE /\ inv' = IdleInv
            /\ hist' = [hist EXCEPT !.ep = EpTouch(@, Invalidator)]
            /\ UNCHANGED <<l1, rd>>
    /\ UNCHANGED <<db, pdb, l2, now, redisUp, locks, wr, chan, Others>>

\* Line 37: r.delete(key, analytics_key).
IDel3 ==
    /\ inv.pc = "run"
    /\ ~inv.del3
    /\ IF redisUp
       THEN /\ l2' = RedisDelete(l2, InvalidateL2Keys(inv.c))
            /\ IAdvance([inv EXCEPT !.del3 = TRUE], FALSE)
       ELSE /\ UNCHANGED l2
            /\ IAdvance([inv EXCEPT !.del3 = TRUE], TRUE)
    /\ UNCHANGED <<db, pdb, l1, now, redisUp, locks, wr, chan, Others>>

\* _delete_redis_pattern lines 59-69: scan, then a pipeline of deletes.
IScan ==
    LET keys == RedisScan(l2, "courses_list") IN
    /\ inv.pc = "run"
    /\ inv.sc = "scan"
    /\ IF ~redisUp
       THEN IAdvance([inv EXCEPT !.sc = "done"], TRUE)
       ELSE IF keys # {}
       THEN IAdvance([inv EXCEPT !.sc = "del", !.keys = keys], FALSE)
       ELSE IAdvance([inv EXCEPT !.sc = "done"], FALSE)
    /\ UNCHANGED <<db, pdb, l1, l2, now, redisUp, locks, wr, chan, Others>>

IDelList ==
    /\ inv.pc = "run"
    /\ inv.sc = "del"
    /\ IF redisUp
       THEN /\ l2' = RedisDelete(l2, inv.keys)
            /\ IAdvance([inv EXCEPT !.sc = "done", !.keys = {}], FALSE)
       ELSE /\ UNCHANGED l2
            /\ IAdvance([inv EXCEPT !.sc = "done", !.keys = {}], TRUE)
    /\ UNCHANGED <<db, pdb, l1, now, redisUp, locks, wr, chan, Others>>

invalidate_course_cache ==
    \/ \E c \in Courses \cup {InvalidCourseId} : IStart(c)
    \/ IDel3
    \/ IScan
    \/ IDelList

\* ------------------------------------------------------------------ clock
\* Time passes; Redis drops the keys whose expiry has come.  A course key
\* that expires ends the undisturbed group of concurrent reads of it.
Expires(c, t) ==
    LET k == course_key(c) IN
    \/ k \in DOMAIN l2 /\ k \notin DOMAIN RedisLive(l2, t)
    \/ k \in DOMAIN l1 /\ ~MemExpired(l1, k, now) /\ MemExpired(l1, k, t)

Tick ==
    LET t == now + TickLen
        gone == {c \in Courses : Expires(c, t)} IN
    /\ t <= MaxNow
    /\ now' = t
    /\ l2' = RedisLive(l2, t)
    /\ rd' = [r \in Readers |->
                IF rd[r].pc # "idle" /\ rd[r].c \in gone
                THEN [rd[r] EXCEPT !.taint = TRUE] ELSE rd[r]]
    /\ hist' = [hist EXCEPT
                  !.dbReads = [c \in Courses |-> IF c \in gone THEN 0 ELSE @[c]],
                  !.seen = [c \in Courses |-> IF c \in gone THEN {} ELSE @[c]]]
    /\ UNCHANGED <<db, pdb, l1, redisUp, locks, wr, inv, chan, Others>>

\* ------------------------------------------------------------ L2 outage
RedisFail ==
    /\ redisUp
    /\ redisUp' = FALSE
    /\ rd' = [r \in Readers |-> IF rd[r].pc # "idle" THEN [rd[r] EXCEPT !.taint = TRUE]
                                ELSE rd[r]]
    /\ hist' = [hist EXCEPT !.dbReads = [c \in Courses |-> 0],
                            !.seen = [c \in Courses |-> {}],
                            !.ep = NoEpoch]
    /\ lis' = [lis EXCEPT !.lost = lis.sub]
    /\ UNCHANGED <<db, pdb, l1, l2, now, locks, wr, inv, chan, probe, connections,
                   instructor_connections, ws, rvars>>

RedisRecover ==
    /\ ~redisUp
    /\ redisUp' = TRUE
    /\ UNCHANGED <<db, pdb, l1, l2, now, locks, rd, wr, inv, hist, chan, Others>>

\* The worker process is restarted between two requests: memory_cache
\* (memory_cache.py line 53) is a new, empty AsyncInMemoryCache, L2 keeps
\* what it holds.  A request served by another worker finds the same.
Restart ==
    /\ \A r \in Readers : rd[r].pc = "idle"
    /\ wr.pc = "idle"
    /\ inv.pc = "idle"
    /\ l1 # EmptyMap
    /\ l1' = EmptyMap
    /\ locks' = EmptyMap
    /\ UNCHANGED <<db, pdb, l2, now, redisUp, rd, wr, inv, hist, chan, Others>>

\* ------------------------------------------------------- analytics reads
\* analytics_service._get_cache followed, on a miss, by the computation and
\* _set_cache: the two tiers after a call for key with L2 reachable.  An
\* aggregate over no records is returned without being cached.  A payload
\* that is not JSON is deleted from L2 (lines 33-39) and counts as a miss.
\* Every computed aggregate carries generated_at (lines 86, 127, 154): the
\* payload's ver is the moment it was computed from the source.
Generated(kind, t) == [Payload(kind) EXCEPT !.ver = t]

\* The progress records an aggregate is computed from: id is the version
\* of the source the aggregate reflects.
RECURSIVE Total(_)
Total(pairs) ==
    IF pairs = {} THEN 0
    ELSE LET p == CHOOSE x \in pairs : TRUE IN pdb[p] + Total(pairs \ {p})

SourceVersion(key) ==
    Total({p \in Users \X Courses :
             \/ key[1] = "analytics:course" /\ p[2] = key[2]
             \/ key[1] = "analytics:student:patterns" /\ p[1] = key[2]
             \/ key[1] = "analytics:platform:overview"})

Aggregated(key, kind, t) == [Generated(kind, t) EXCEPT !.id = SourceVersion(key)]

AggregateL1(key, ttl, kind, hasData, t) ==
    IF Truthy(MemGetVal(l1, key, t)) THEN l1
    ELSE IF key \in DOMAIN l2 /\ Decodable(l2[key].val)
    THEN MemSet(MemGetStore(l1, key, t), key, Loads(l2[key].val), ttl \div 2, t)
    ELSE IF hasData
    THEN MemSet(MemGetStore(l1, key, t), key, Aggregated(key, kind, t), ttl \div 2, t)
    ELSE MemGetStore(l1, key, t)

AggregateL2(key, ttl, kind, hasData, t) ==
    IF Truthy(MemGetVal(l1, key, t)) THEN l2
    ELSE IF key \in DOMAIN l2 /\ Decodable(l2[key].val) THEN l2
    ELSE IF hasData THEN RedisSet(l2, key, Dumps(Aggregated(key, kind, t)), ttl, t)
    ELSE RedisDelete(l2, {key})

\* An aggregate read raises when it has to go to L2 and L2 is unreachable.
AggregateRaises(key, t) == ~Truthy(MemGetVal(l1, key, t)) /\ ~redisUp

HasProgress(c) == \E u \in Users : pdb[<<u, c>>] # 0

\* GET /analytics/courses/{id}/performance: course_performance (lines
\* 52-58 and on) reads the aggregate through the two tiers.
course_performance(c) ==
    LET key == analytics_course_key(c) IN
    /\ IF AggregateRaises(key, now)
       THEN /\ l1' = MemGetStore(l1, key, now)
            /\ UNCHANGED l2
       ELSE /\ l1' = AggregateL1(key, COURSE_ANALYTICS_TTL, "analytics", HasProgress(c), now)
            /\ l2' = AggregateL2(key, COURSE_ANALYTICS_TTL, "analytics", HasProgress(c), now)
    /\ UNCHANGED <<db, pdb, now, redisUp, locks, rd, wr, inv, hist, chan, Others>>

\* The payload of a string key of L2 is damaged outside the process
\* (truncated write, foreign writer): the stored text is no longer JSON.
Corrupt(k) ==
    /\ k \in DOMAIN l2
    /\ l2[k].type = "string"
    /\ Decodable(l2[k].val)
    /\ l2' = [l2 EXCEPT ![k].val = Garbage]
    /\ UNCHANGED <<db, pdb, l1, now, redisUp, locks, rd, wr, inv, hist, chan, Others>>

\* ------------------------------------------------------------ websockets
Sockets == 1..NumSockets
Instructors == 1..NumInstructors

\* A websocket: kind is the route that serves it, c its course or
\* instructor id and st the position of its handler: closed (no handler),
\* init (registered, before the initial snapshot), open (in the
\* receive_text loop) or broken (the transport has failed and the handler
\* has not noticed).  got: the push of the last event was received.
IdleSocket == [st |-> "closed", kind |-> "course", c |-> 1, got |-> FALSE]

Registered(c) == IF c \in DOMAIN connections THEN connections[c] ELSE {}

\* instructor_connections is a dict, kept in insertion order as a sequence
\* of [id, w].
InstrIds(ic) == {ic[i].id : i \in DOMAIN ic}
InstrSock(ic, id) == (CHOOSE e \in {ic[i] : i \in DOMAIN ic} : e.id = id).w
InstrSockets(ic) == {ic[i].w : i \in DOMAIN ic}
InstrPut(ic, id, w) ==
    IF id \in InstrIds(ic)
    THEN [i \in DOMAIN ic |-> IF ic[i].id = id THEN [id |-> id, w |-> w] ELSE ic[i]]
    ELSE Append(ic, [id |-> id, w |-> w])
InstrPop(ic, id) == SelectSeq(ic, LAMBDA e : e.id # id)
\* The first key, in dict order, that is not in seen (0: none).
InstrNext(ic, seen) ==
    LET left == {i \in DOMAIN ic : ic[i].id \notin seen} IN
    IF left = {} THEN 0 ELSE ic[CHOOSE i \in left : \A j \in left : i <= j].id

\* The sockets some registry refers to.
InRegistry ==
    UNION {connections[c] : c \in DOMAIN connections} \cup InstrSockets(instructor_connections)

\* The connection a broadcast that is suspended in a send still refers to.
InBroadcast(w) == lis.pc \in {"send", "psend"} /\ w \in lis.snap

\* A closed socket is used for a new connection: what was observed of the
\* old one is forgotten.
Reused(l, w) == [l EXCEPT !.reg = @ \ {w}, !.failed = @ \ {w}]

\* A send_json to the socket succeeds.
Sendable(w) == ws[w].st \in {"init", "open"}

\* connect_course, lines 21-25, called by the websocket route (line 17):
\* the handshake is accepted and the socket is added to the course's set.
connect_course(w, c) ==
    /\ ws[w].st = "closed"
    /\ w \notin InRegistry
    /\ ~InBroadcast(w)
    /\ ws' = [ws EXCEPT ![w] = [st |-> "init", kind |-> "course", c |-> c, got |-> FALSE]]
    /\ connections' = Put(connections, c, Registered(c) \cup {w})
    /\ lis' = Reused(lis, w)
    /\ UNCHANGED <<cvars, probe, instructor_connections, chan, rvars>>

\* connect_instructor, lines 14-16, called by the route (realtime.py line
\* 39): the socket replaces whatever was registered under the id.
connect_instructor(w, i) ==
    /\ ws[w].st = "closed"
    /\ w \notin InRegistry
    /\ ~InBroadcast(w)
    /\ ws' = [ws EXCEPT ![w] = [st |-> "init", kind |-> "instructor", c |-> i,
                                got |-> FALSE]]
    /\ instructor_connections' = InstrPut(instructor_connections, i, w)
    /\ lis' = Reused(lis, w)
    /\ UNCHANGED <<cvars, probe, connections, chan, rvars>>

\* realtime.py lines 19-25 and 41-46: the aggregate is read through the
\* cache and sent as the initial snapshot.  When the read raises, the
\* exception is not a WebSocketDisconnect: the handler ends, the connection
\* is closed and nothing takes it out of the registry.
WsInitial(w) ==
    LET course == ws[w].kind = "course"
        key == IF course THEN analytics_course_key(ws[w].c)
               ELSE analytics_platform_overview_key
        ttl == IF course THEN COURSE_ANALYTICS_TTL ELSE PLATFORM_ANALYTICS_TTL
        kind == IF course THEN "analytics" ELSE "overview"
        hasData == IF course THEN HasProgress(ws[w].c) ELSE TRUE
    IN
    /\ ws[w].st = "init"
    /\ IF AggregateRaises(key, now)
       THEN /\ ws' = [ws EXCEPT ![w].st = "closed"]
            /\ UNCHANGED <<l1, l2>>
       ELSE /\ ws' = [ws EXCEPT ![w].st = "open"]
            /\ l1' = AggregateL1(key, ttl, kind, hasData, now)
            /\ l2' = AggregateL2(key, ttl, kind, hasData, now)
    /\ UNCHANGED <<db, pdb, now, redisUp, locks, rd, wr, inv, hist, probe, connections,
                   instructor_connections, lis, chan, rvars>>

\* The transport of a connection fails; its handler has not noticed yet.
WsBreak(w) ==
    /\ ws[w].st = "open"
    /\ ws' = [ws EXCEPT ![w].st = "broken"]
    /\ UNCHANGED <<cvars, probe, connections, instructor_connections, lis, chan, rvars>>

\* The client closes: receive_text raises WebSocketDisconnect and the route
\* calls disconnect_course, lines 27-31.  The set a suspended broadcast
\* iterates is the object that is emptied and dropped here.
disconnect_course(w) ==
    LET c == ws[w].c
        left == Registered(c) \ {w}
        dropped == c \in DOMAIN connections /\ left = {}
    IN
    /\ ws[w].st \in {"open", "broken"}
    /\ ws[w].kind = "course"
    /\ ws' = [ws EXCEPT ![w] = IdleSocket]
    /\ connections' = IF dropped THEN Drop(connections, {c})
                      ELSE IF c \in DOMAIN connections THEN [connections EXCEPT ![c] = left]
                      ELSE connections
    /\ lis' = [lis EXCEPT !.reg = @ \ {w}, !.failed = @ \ {w},
                          !.detached = @ \/ (lis.pc = "send" /\ lis.c = c /\ dropped)]
    /\ UNCHANGED <<cvars, probe, instructor_connections, chan, rvars>>

\* The client of an instructor socket closes: the route calls
\* disconnect_instructor, lines 18-19, which pops the id of the handler
\* whichever socket is registered under it.
disconnect_instructor(w) ==
    LET i == ws[w].c
        gone == IF i \in InstrIds(instructor_connections)
                THEN {w, InstrSock(instructor_connections, i)} ELSE {w}
    IN
    /\ ws[w].st \in {"open", "broken"}
    /\ ws[w].kind = "instructor"
    /\ ws' = [ws EXCEPT ![w] = IdleSocket]
    /\ instructor_connections' = InstrPop(instructor_connections, i)
    /\ lis' = [lis EXCEPT !.reg = @ \ gone, !.failed = @ \ gone]
    /\ UNCHANGED <<cvars, probe, connections, chan, rvars>>

\* ---------------------------------------------------------------- listener
\* sub: the pattern is subscribed; lost: the connection of the subscription
\* has failed; pc: off (before the first psubscribe), idle (in
\* pubsub.listen()), platform, compute, send and psend (processing an
\* event), backoff (in the sleep of line 116).  reg, failed, again and
\* after are observations: the sockets registered when the fan-out of the
\* last event began and still connected, those whose send failed, whether
\* the listener has subscribed again after a loss and has taken an event
\* since.
IdleListener ==
    [sub |-> FALSE, lost |-> FALSE, pc |-> "off", c |-> 0, event |-> "none", reg |-> {},
     snap |-> {}, visited |-> {}, cur |-> 0, dead |-> {}, detached |-> FALSE,
     failed |-> {}, again |-> FALSE, after |-> FALSE, ver |-> 0]

\* The listener is back at pubsub.listen(); reg, failed, c and event keep
\* what the last event was.
Listening(l) ==
    [l EXCEPT !.pc = "idle", !.snap = {}, !.visited = {}, !.cur = 0, !.dead = {},
              !.detached = FALSE]

\* Variant of BackOff in which the exception ends the task.
Terminated(l) == [Listening(l) EXCEPT !.pc = "ended", !.sub = FALSE, !.lost = FALSE]

\* Lines 114-116: the exception of a lost connection leaves the inner loop;
\* the listener sleeps and goes round the outer loop.
BackOff(l) == [Listening(l) EXCEPT !.pc = "backoff", !.sub = FALSE, !.lost = FALSE]

\* Lines 76-81 and 114-116: psubscribe, at start-up and after the sleep; on
\* a connection error the listener sleeps and tries again.
LisSubscribe ==
    /\ lis.pc \in {"off", "backoff"}
    /\ lis' = IF redisUp
              THEN [lis EXCEPT !.sub = TRUE, !.pc = "idle", !.again = lis.pc = "backoff"]
              ELSE BackOff(lis)
    /\ UNCHANGED <<cvars, probe, connections, instructor_connections, ws, chan, rvars>>

\* Line 83: pubsub.listen() raises on the lost connection; the messages
\* the pubsub object had buffered go with it.
LisLost ==
    /\ lis.pc = "idle"
    /\ lis.sub /\ lis.lost
    /\ lis' = BackOff(lis)
    /\ chan' = << >>
    /\ UNCHANGED <<cvars, probe, connections, instructor_connections, ws, rvars>>

\* Lines 83-90, 100-102: the next message is taken and decoded; the
\* aggregate read of its subject is awaited.
LisTake ==
    LET m == Head(chan) IN
    /\ lis.pc = "idle"
    /\ chan # << >>
    /\ chan' = Tail(chan)
    /\ lis' = [Listening(lis) EXCEPT
                 !.pc = IF m.course_id = Platform THEN "platform" ELSE "compute",
                 !.c = m.course_id, !.event = m.event, !.ver = m.ver, !.reg = {},
                 !.failed = {},
                 !.after = lis.again]
    /\ UNCHANGED <<cvars, probe, connections, instructor_connections, ws, rvars>>

\* Lines 92-99: platform_overview, then the iteration over the dict starts
\* and the first broadcast_to_instructor is awaited.  An exception ends
\* the processing of the event (lines 111-112).
LisPlatform ==
    LET key == analytics_platform_overview_key
        ic == instructor_connections
    IN
    /\ lis.pc = "platform"
    /\ IF AggregateRaises(key, now)
       THEN /\ lis' = Listening(lis)
            /\ UNCHANGED <<l1, l2, ws>>
       ELSE /\ l1' = AggregateL1(key, PLATFORM_ANALYTICS_TTL, "overview", TRUE, now)
            /\ l2' = AggregateL2(key, PLATFORM_ANALYTICS_TTL, "overview", TRUE, now)
            /\ ws' = [w \in Sockets |-> [ws[w] EXCEPT !.got = FALSE]]
            /\ lis' = IF ic = << >> THEN Listening(lis)
                      ELSE [lis EXCEPT !.pc = "psend", !.cur = ic[1].id,
                                       !.snap = InstrSockets(ic), !.visited = {ic[1].id},
                                       !.reg = InstrSockets(ic)]
    /\ UNCHANGED <<db, pdb, now, redisUp, locks, rd, wr, inv, hist, probe, connections,
                   instructor_connections, chan, rvars>>

\* The dict iterator raises RuntimeError when the dict has another size
\* than when the iteration began (snap holds one socket per key).
DictChanged(ic) == Len(ic) # Cardinality(lis.snap)

\* Variant of DictChanged: the iteration never notices a change.
DictNeverChanged(ic) == FALSE

\* broadcast_to_instructor lines 47-51, then line 98: the awaited send ends
\* (a failed send pops the id), and the iterator is advanced: to the next
\* id, to the end, or to RuntimeError, which the listener catches.
LisPSend ==
    LET ic == instructor_connections
        id == lis.cur
        present == id \in InstrIds(ic)
        sent == present /\ Sendable(InstrSock(ic, id))
        after == IF present /\ ~sent THEN InstrPop(ic, id) ELSE ic
        nxt == InstrNext(after, lis.visited)
        failed == IF present /\ ~sent THEN lis.failed \cup {InstrSock(ic, id)}
                  ELSE lis.failed
    IN
    /\ lis.pc = "psend"
    /\ ws' = IF sent THEN [ws EXCEPT ![InstrSock(ic, id)].got = TRUE] ELSE ws
    /\ instructor_connections' = after
    /\ lis' = IF DictChanged(after) \/ nxt = 0
              THEN [Listening(lis) EXCEPT !.failed = failed]
              ELSE [lis EXCEPT !.cur = nxt, !.visited = @ \cup {nxt}, !.failed = failed]
    /\ UNCHANGED <<cvars, probe, connections, chan, rvars>>

\* Lines 102-109 and broadcast_course_update lines 34-38: course_performance,
\* then the iteration over the subject's set starts and the first send is
\* awaited.  An exception ends the processing of the event (lines 111-112).
LisCompute ==
    LET c == lis.c
        key == analytics_course_key(c)
        regd == Registered(c)
    IN
    /\ lis.pc = "compute"
    /\ IF AggregateRaises(key, now)
       THEN /\ lis' = Listening(lis)
            /\ UNCHANGED <<l1, l2, ws>>
       ELSE /\ l1' = AggregateL1(key, COURSE_ANALYTICS_TTL, "analytics", HasProgress(c), now)
            /\ l2' = AggregateL2(key, COURSE_ANALYTICS_TTL, "analytics", HasProgress(c), now)
            /\ ws' = [w \in Sockets |-> [ws[w] EXCEPT !.got = FALSE]]
            /\ IF regd = {}
               THEN lis' = Listening(lis)
               ELSE \E w \in regd :
                       lis' = [lis EXCEPT !.pc = "send", !.cur = w, !.snap = regd,
                                          !.visited = {w}, !.reg = regd]
    /\ UNCHANGED <<db, pdb, now, redisUp, locks, rd, wr, inv, hist, probe, connections,
                   instructor_connections, chan, rvars>>

\* Faulty variant of SetChanged: the iteration never notices a change.
SetNeverChanged(c) == FALSE

\* The set iterator raises RuntimeError when the set has another size than
\* when the iteration began.
SetChanged(c) == lis.detached \/ Cardinality(Registered(c)) # Cardinality(lis.snap)

\* broadcast_course_update lines 36-44: the awaited send_json ends (a send
\* to a connection that is gone raises and marks it dead), then the
\* iterator is advanced: to the next send, to the clean-up of the dead
\* connections, or to RuntimeError, which the listener catches (line 111).
LisSend ==
    LET c == lis.c
        w == lis.cur
        sent == Sendable(w)
        dead == IF sent THEN lis.dead ELSE lis.dead \cup {w}
        rest == Registered(c) \ lis.visited
    IN
    /\ lis.pc = "send"
    /\ ws' = IF sent THEN [ws EXCEPT ![w].got = TRUE] ELSE ws
    /\ IF SetChanged(c)
       THEN /\ lis' = [Listening(lis) EXCEPT !.failed = dead]
            /\ UNCHANGED connections
       ELSE IF rest = {}
       THEN /\ lis' = [Listening(lis) EXCEPT !.failed = dead]
            /\ connections' = [connections EXCEPT ![c] = @ \ dead]
       ELSE /\ \E n \in rest :
                  lis' = [lis EXCEPT !.cur = n, !.visited = @ \cup {n}, !.dead = dead]
            /\ UNCHANGED connections
    /\ UNCHANGED <<cvars, probe, instructor_connections, chan, rvars>>

listen_analytics_updates ==
    \/ LisSubscribe
    \/ LisTake
    \/ LisPlatform
    \/ LisCompute
    \/ LisSend

websocket ==
    \/ \E w \in Sockets, c \in Courses : connect_course(w, c)
    \/ \E w \in Sockets : WsInitial(w)
    \/ \E w \in Sockets : WsBreak(w)
    \/ \E w \in Sockets : disconnect_course(w)

\* ---------------------------------------------------------------- recovery
Reqs == 1..NumRequests
NoBackup == 0
BackupNames == {1, 2}
\* The names the backup endpoints are called with.
StoredNames == {1}

\* A blob file of the backup directory: the name it was written under, the
\* state of the file and the JSON document in it; made, orig and at record
\* the create_backup call that wrote it and the keyspace it read
\* (observation only).  NoSnapshot: there is no such file.
NoSnapshot ==
    [latest |-> NoBackup, blob |-> "missing", data |-> EmptyMap, made |-> FALSE,
     orig |-> EmptyMap, at |-> 0]

\* The snapshot store: recs is the cache_backups collection (the names of
\* its records, in insertion order), files the backup directory by name.
NoStore == [recs |-> << >>, files |-> EmptyMap]

\* A store with one record and, unless it is missing, the blob of its name.
StoreOf(name, b, d) ==
    [recs |-> <<name>>,
     files |-> IF b = "missing" THEN EmptyMap
               ELSE Put(EmptyMap, name, [NoSnapshot EXCEPT !.latest = name, !.blob = b,
                                                           !.data = d])]

\* A recovery request; snap is the blob restore_backup has loaded, warmfail
\* tells that the jobs of warm_critical_caches raised.
IdleRec ==
    [pc |-> "idle", op |-> "none", svc |-> 0, name |-> NoBackup, unhealthy |-> FALSE,
     backup |-> FALSE, restore |-> "none", warmed |-> FALSE, attempted |-> FALSE,
     res |-> "none", clear |-> FALSE, blob |-> "none", failed |-> FALSE,
     warmfail |-> FALSE, snap |-> NoSnapshot]

\* backup_route.get_recovery_service and health_monitor_task build a new
\* CacheRecoveryService for every request and every monitor run.
get_recovery_service(p) == p

\* The request of the operator.
Operator == CHOOSE p \in Reqs : TRUE

\* The blob file of a snapshot name.
File(name) == IF name \in DOMAIN snaps.files THEN snaps.files[name] ELSE NoSnapshot
Blob(name) == File(name).blob

\* _get_latest_backup lines 112-123: the name of the record with the
\* greatest created_at.
Latest == IF snaps.recs = << >> THEN NoBackup ELSE snaps.recs[Len(snaps.recs)]

\* delete_one({"name": name}): the first matching record is removed.
DeleteOne(recs, name) ==
    LET hits == {i \in DOMAIN recs : recs[i] = name} IN
    IF hits = {} THEN recs
    ELSE LET first == CHOOSE i \in hits : \A j \in hits : i <= j IN
         [i \in 1..(Len(recs) - 1) |-> IF i < first THEN recs[i] ELSE recs[i + 1]]

\* deps.create_redis_client: the client decodes every reply to str.
decode_responses == TRUE

\* A reply of the client and a bytes literal of the code.
Reply(s) == [repr |-> IF decode_responses THEN "str" ELSE "bytes", s |-> s]
BytesLiteral(s) == [repr |-> "bytes", s |-> s]

\* create_backup lines 37-51: the reply of TYPE is compared with b"string",
\* b"hash" and b"set"; a key that matches none of them is not recorded.
Captured(store, k) ==
    \E ty \in {"string", "hash", "set"} : Reply(store[k].type) = BytesLiteral(ty)

\* Variant of Captured that compares the type names only.
CapturedByName(store, k) == store[k].type \in {"string", "hash", "set"}

\* create_backup lines 35-60: what a snapshot records of an L2 keyspace:
\* value, type and the reply of TTL (-1 without expiry), written as JSON.
SnapshotOf(store, t) ==
    [k \in {x \in DOMAIN store : Captured(store, x)} |->
        [val |-> Dumps(store[k].val), type |-> store[k].type,
         ttl |-> IF store[k].exp = 0 THEN 0 - 1 ELSE store[k].exp - t]]

\* restore_backup lines 84-96.  A string entry whose value is null cannot
\* be encoded: pipe.execute() raises before anything is sent.
Unencodable(data) ==
    {k \in DOMAIN data : data[k].type = "string" /\ ~Truthy(data[k].val)}
\* HSET or SADD on a key that holds another type is answered WRONGTYPE: the
\* other commands of the transaction are applied and pipe.execute() raises.
WrongType(store, data) ==
    {k \in DOMAIN data : /\ data[k].type \in {"hash", "set"}
                         /\ k \in DOMAIN store
                         /\ store[k].type # data[k].type}
ReplayFailed(store, data) == Unencodable(data) \cup WrongType(store, data)

\* restore_backup lines 83-96: the pipeline of set/hset/sadd and expire on
\* the values read back from the JSON blob.
RestoreInto(store, data, t) ==
    IF Unencodable(data) # {} THEN store
    ELSE [k \in DOMAIN store \cup DOMAIN data |->
            IF k \notin DOMAIN data THEN store[k]
            ELSE IF k \in WrongType(store, data)
            THEN [store[k] EXCEPT !.exp = IF data[k].ttl > 0 THEN t + data[k].ttl ELSE @]
            ELSE [val |-> Loads(data[k].val), type |-> data[k].type,
                  exp |-> IF data[k].ttl > 0 THEN t + data[k].ttl
                          ELSE IF data[k].type = "string" \/ k \notin DOMAIN store THEN 0
                          ELSE store[k].exp]]

\* warm_critical_caches (cache_warming.py lines 9-16) as one step: the
\* platform overview, the list pages, the courses on them and their
\* aggregates are read through the cache.  With L2 unreachable every job
\* fails and gather(return_exceptions=True) swallows the failures.
WarmKeys ==
    {[key |-> analytics_platform_overview_key, ttl2 |-> PLATFORM_ANALYTICS_TTL,
      ttl1 |-> PLATFORM_ANALYTICS_TTL \div 2, val |-> Payload("overview")]}
    \cup {[key |-> courses_list_key(h), ttl2 |-> COURSE_LIST_TTL, ttl1 |-> COURSE_LIST_TTL,
           val |-> Payload("list")] : h \in ListHashes}
    \cup {[key |-> course_key(c), ttl2 |-> COURSE_TTL, ttl1 |-> COURSE_TTL,
           val |-> CourseDoc(c, db[c])] : c \in {x \in Courses : db[x] # 0}}

WarmEntry(k) == CHOOSE e \in WarmKeys : e.key = k

WarmedL2(store, t) ==
    LET add == {e.key : e \in WarmKeys} \ DOMAIN store IN
    [k \in DOMAIN store \cup add |->
        IF k \in add
        THEN [val |-> Dumps(WarmEntry(k).val), exp |-> t + WarmEntry(k).ttl2, type |-> "string"]
        ELSE store[k]]

WarmedL1(store, l2store, t) ==
    LET add == {e.key : e \in WarmKeys} \ {k \in DOMAIN store : ~MemExpired(store, k, t)} IN
    [k \in DOMAIN store \cup add |->
        IF k \in add
        THEN [exp |-> t + WarmEntry(k).ttl1,
              val |-> IF k \in DOMAIN l2store THEN Loads(l2store[k].val) ELSE WarmEntry(k).val]
        ELSE store[k]]

Running(p) == rec[p].pc \in {"ping", "latest", "flush", "exec", "warm"}

\* Variant of RecReturn without the finally clause: the flag stays set.
RecReturnKept(p, me, result) ==
    /\ UNCHANGED in_progress
    /\ rec' = [rec EXCEPT ![p] = [me EXCEPT !.res = result,
                                            !.pc = IF me.op = "health" THEN "hping2"
                                                   ELSE "idle"]]

\* The recovery of request p ends with result: the finally clause clears
\* the flag of its service; health_check_with_recovery pings once more.
RecReturn(p, me, result) ==
    /\ in_progress' = [in_progress EXCEPT ![me.svc] = FALSE]
    /\ rec' = [rec EXCEPT ![p] = [me EXCEPT !.res = result,
                                            !.pc = IF me.op = "health" THEN "hping2"
                                                   ELSE "idle"]]

\* POST /auto-recovery, POST /restore/{name}, GET /health and the health
\* monitor: the service is built (flag False, line 18); auto_recovery and
\* manual_recovery test and set the flag (lines 22-25, 55-58);
\* manual_recovery goes on to restore_backup, which returns False at once
\* when the blob file is missing and, without clear_existing, loads the
\* blob before its first await.
RecBegin(p, op, name, clear, svc, built) ==
    LET me == [IdleRec EXCEPT !.op = op, !.svc = svc, !.name = name, !.clear = clear]
    IN
    /\ rec[p].pc = "idle"
    /\ IF op = "health"
       THEN /\ rec' = [rec EXCEPT ![p] = [me EXCEPT !.pc = "hping"]]
            /\ in_progress' = built
       ELSE IF built[svc]
       THEN /\ rec' = [rec EXCEPT ![p] = [me EXCEPT !.res = "not_attempted"]]
            /\ in_progress' = built
       ELSE IF op = "auto_recovery"
       THEN /\ rec' = [rec EXCEPT ![p] = [me EXCEPT !.pc = "ping"]]
            /\ in_progress' = [built EXCEPT ![svc] = TRUE]
       ELSE IF Blob(name) = "missing"
       THEN /\ rec' = [rec EXCEPT ![p] = [me EXCEPT !.restore = "false", !.res = "false",
                                                    !.blob = "missing"]]
            /\ in_progress' = built
       ELSE IF clear
       THEN /\ rec' = [rec EXCEPT ![p] = [me EXCEPT !.pc = "flush"]]
            /\ in_progress' = [built EXCEPT ![svc] = TRUE]
       ELSE IF Blob(name) = "corrupt"
       THEN /\ rec' = [rec EXCEPT ![p] = [me EXCEPT !.restore = "raised", !.res = "false",
                                                    !.blob = "corrupt"]]
            /\ in_progress' = built
       ELSE /\ rec' = [rec EXCEPT ![p] = [me EXCEPT !.pc = "exec", !.blob = "ok",
                                                    !.snap = File(name)]]
            /\ in_progress' = [built EXCEPT ![svc] = TRUE]
    /\ UNCHANGED <<cvars, probe, tvars, snaps, job, prd, aq>>

RecStart(p, op, name, clear) ==
    RecBegin(p, op, name, clear, get_recovery_service(p),
             [in_progress EXCEPT ![get_recovery_service(p)] = FALSE])

\* auto_recovery and health_check_with_recovery called on one
\* CacheRecoveryService that its callers share: the flag is the one the
\* other calls on that instance have set.
RecOnService(p, op) ==
    RecBegin(p, op, NoBackup, FALSE, get_recovery_service(Operator), in_progress)

\* manual_recovery called on the shared CacheRecoveryService.
RecManualOnService(p, name, clear) ==
    RecBegin(p, "manual_recovery", name, clear, get_recovery_service(Operator), in_progress)

\* health_check_with_recovery lines 87-92: the ping; when it fails the
\* recovery is marked attempted and auto_recovery is entered.
RecHPing(p) ==
    LET me == rec[p] IN
    /\ me.pc = "hping"
    /\ IF redisUp
       THEN /\ rec' = [rec EXCEPT ![p] = [me EXCEPT !.pc = "idle", !.res = "healthy"]]
            /\ UNCHANGED in_progress
       ELSE IF in_progress[me.svc]
       THEN /\ rec' = [rec EXCEPT ![p] = [me EXCEPT !.attempted = TRUE, !.pc = "hping2",
                                                    !.res = "not_attempted"]]
            /\ UNCHANGED in_progress
       ELSE /\ rec' = [rec EXCEPT ![p] = [me EXCEPT !.attempted = TRUE, !.pc = "ping"]]
            /\ in_progress' = [in_progress EXCEPT ![me.svc] = TRUE]
    /\ UNCHANGED <<cvars, probe, tvars, snaps, job, prd, aq>>

\* Lines 93-102: the second ping, then the status is returned.
RecHPing2(p) ==
    /\ rec[p].pc = "hping2"
    /\ rec' = [rec EXCEPT ![p].pc = "idle"]
    /\ UNCHANGED <<cvars, probe, tvars, in_progress, snaps, job, prd, aq>>

\* auto_recovery line 28: _check_redis_health.
RecPing(p) ==
    LET me == rec[p] IN
    /\ me.pc = "ping"
    /\ IF redisUp
       THEN RecReturn(p, me, "true")
       ELSE /\ rec' = [rec EXCEPT ![p] = [me EXCEPT !.unhealthy = TRUE, !.pc = "latest"]]
            /\ UNCHANGED in_progress
    /\ UNCHANGED <<cvars, probe, tvars, snaps, job, prd, aq>>

\* Lines 32-34 and restore_backup up to its first await: the latest
\* snapshot record is looked up; its blob is missing (restore returns
\* False), unreadable (the load raises) or loaded into a pipeline.
RecLatest(p) ==
    LET me == [rec[p] EXCEPT !.backup = Latest # NoBackup, !.name = Latest] IN
    /\ rec[p].pc = "latest"
    /\ IF ~me.backup
       THEN /\ rec' = [rec EXCEPT ![p] = [me EXCEPT !.pc = "warm"]]
            /\ UNCHANGED in_progress
       ELSE IF Blob(me.name) = "missing"
       THEN /\ rec' = [rec EXCEPT ![p] = [me EXCEPT !.restore = "false", !.pc = "warm",
                                                    !.blob = "missing"]]
            /\ UNCHANGED in_progress
       ELSE IF Blob(me.name) = "corrupt"
       THEN RecReturn(p, [me EXCEPT !.restore = "raised", !.blob = "corrupt"], "false")
       ELSE /\ rec' = [rec EXCEPT ![p] = [me EXCEPT !.pc = "exec", !.blob = "ok",
                                                    !.snap = File(me.name)]]
            /\ UNCHANGED in_progress
    /\ UNCHANGED <<cvars, probe, tvars, snaps, job, prd, aq>>

\* manual_recovery: restore_backup lines 74-80 with clear_existing: flushdb,
\* then the blob is loaded.
RecFlush(p) ==
    LET me == rec[p] IN
    /\ me.pc = "flush"
    /\ IF ~redisUp
       THEN /\ RecReturn(p, [me EXCEPT !.restore = "raised"], "false")
            /\ UNCHANGED l2
       ELSE /\ l2' = EmptyMap
            /\ IF Blob(me.name) = "ok"
               THEN /\ rec' = [rec EXCEPT ![p] = [me EXCEPT !.pc = "exec", !.blob = "ok",
                                                            !.snap = File(me.name)]]
                    /\ UNCHANGED in_progress
               ELSE RecReturn(p, [me EXCEPT !.restore = "raised", !.blob = Blob(me.name)],
                              "false")
    /\ UNCHANGED <<db, pdb, l1, now, redisUp, locks, rd, wr, inv, hist, probe, tvars, snaps, job, prd, aq>>

\* restore_backup lines 96-97: pipe.execute(), then True.  When the replay
\* of a key fails, execute raises and the recovery returns False.
RecExec(p) ==
    LET me == rec[p] IN
    /\ me.pc = "exec"
    /\ IF ~redisUp
       THEN /\ RecReturn(p, [me EXCEPT !.restore = "raised"], "false")
            /\ UNCHANGED l2
       ELSE IF ReplayFailed(l2, me.snap.data) # {}
       THEN /\ l2' = RestoreInto(l2, me.snap.data, now)
            /\ RecReturn(p, [me EXCEPT !.restore = "raised", !.failed = TRUE], "false")
       ELSE /\ l2' = RestoreInto(l2, me.snap.data, now)
            /\ rec' = [rec EXCEPT ![p] = [me EXCEPT !.restore = "true", !.pc = "warm"]]
            /\ UNCHANGED in_progress
    /\ UNCHANGED <<db, pdb, l1, now, redisUp, locks, rd, wr, inv, hist, probe, tvars, snaps, job, prd, aq>>

\* Lines 36-43 and 65-68: warm_critical_caches, then the result.  The
\* exceptions of the jobs are collected by gather(return_exceptions=True)
\* (cache_warming.py lines 11-16) and not looked at.
RecWarm(p) ==
    LET me == [rec[p] EXCEPT !.warmed = TRUE, !.warmfail = ~redisUp] IN
    /\ rec[p].pc = "warm"
    /\ IF redisUp
       THEN /\ l2' = WarmedL2(l2, now)
            /\ l1' = WarmedL1(l1, l2, now)
       ELSE UNCHANGED <<l1, l2>>
    /\ RecReturn(p, me, "true")
    /\ UNCHANGED <<db, pdb, now, redisUp, locks, rd, wr, inv, hist, probe, tvars, snaps, job, prd, aq>>

\* POST /api/cache/backup/create and the scheduled backups: the keyspace
\* is read and written to the blob of the name, and the metadata record is
\* inserted.  With L2 unreachable keys("*") raises and nothing is written.
create_backup(name) ==
    /\ redisUp
    /\ Len(snaps.recs) < MaxBackups
    /\ snaps' = [recs |-> Append(snaps.recs, name),
                 files |-> Put(snaps.files, name,
                               [latest |-> name, blob |-> "ok", data |-> SnapshotOf(l2, now),
                                made |-> TRUE, orig |-> l2, at |-> now])]
    /\ UNCHANGED <<cvars, probe, tvars, rec, in_progress, job, prd, aq>>

\* DELETE /api/cache/backup/{name}: the blob file, when it exists, is
\* unlinked and its record deleted.
delete_backup(name) ==
    /\ Blob(name) # "missing"
    /\ snaps' = [recs |-> DeleteOne(snaps.recs, name), files |-> Drop(snaps.files, {name})]
    /\ UNCHANGED <<cvars, probe, tvars, rec, in_progress, job, prd, aq>>

recovery ==
    \/ \E p \in Reqs, op \in {"auto_recovery", "health"} : RecStart(p, op, NoBackup, FALSE)
    \/ \E p \in Reqs, name \in BackupNames, clear \in BOOLEAN :
          RecStart(p, "manual_recovery", name, clear)
    \/ \E p \in Reqs : RecHPing(p)
    \/ \E p \in Reqs : RecHPing2(p)
    \/ \E p \in Reqs : RecPing(p)
    \/ \E p \in Reqs : RecLatest(p)
    \/ \E p \in Reqs : RecFlush(p)
    \/ \E p \in Reqs : RecExec(p)
    \/ \E p \in Reqs : RecWarm(p)

\* ------------------------------------------------------ L1 cache, directly
\* The calls of AsyncInMemoryCache (memory_cache.py lines 21-43) made one
\* at a time with arbitrary arguments; probe records the last set of every
\* key and what the last get returned.
ProbeKeys == {course_key(c) : c \in Courses} \cup {courses_list_key(h) : h \in ListHashes}
ProbeTtls == {ShortTtl, LongTtl}
ProbeVals == {CourseDoc(1, 1), Payload("list")}

NoSet == [set |-> FALSE, val |-> NoDoc, ttl |-> 0, at |-> 0]
NoGot == [valid |-> FALSE, k |-> course_key(1), out |-> NoDoc, at |-> 0]

L1Set(k, v, ttl) ==
    /\ l1' = MemSet(l1, k, v, ttl, now)
    /\ probe' = [last |-> [probe.last EXCEPT ![k] = [set |-> TRUE, val |-> v, ttl |-> ttl,
                                                     at |-> now]],
                 got |-> NoGot]
    /\ UNCHANGED <<db, pdb, l2, now, redisUp, locks, rd, wr, inv, hist, tvars, rvars>>

L1Get(k) ==
    /\ l1' = MemGetStore(l1, k, now)
    /\ probe' = [probe EXCEPT !.got = [valid |-> TRUE, k |-> k,
                                       out |-> MemGetVal(l1, k, now), at |-> now]]
    /\ UNCHANGED <<db, pdb, l2, now, redisUp, locks, rd, wr, inv, hist, tvars, rvars>>

L1Delete(k) ==
    /\ l1' = MemDelete(l1, k)
    /\ probe' = [last |-> [probe.last EXCEPT ![k] = NoSet], got |-> NoGot]
    /\ UNCHANGED <<db, pdb, l2, now, redisUp, locks, rd, wr, inv, hist, tvars, rvars>>

L1PatternDelete(prefix) ==
    /\ l1' = MemPatternDelete(l1, prefix)
    /\ probe' = [last |-> [k \in ProbeKeys |->
                              IF HasPrefix(k, prefix) THEN NoSet ELSE probe.last[k]],
                 got |-> NoGot]
    /\ UNCHANGED <<db, pdb, l2, now, redisUp, locks, rd, wr, inv, hist, tvars, rvars>>

memory_cache ==
    \/ \E k \in ProbeKeys, v \in ProbeVals, ttl \in ProbeTtls : L1Set(k, v, ttl)
    \/ \E k \in ProbeKeys : L1Get(k)
    \/ \E k \in ProbeKeys : L1Delete(k)
    \/ \E prefix \in {"courses_list"} : L1PatternDelete(prefix)

\* ------------------------------------------------------------------ Init
\* The derived views (list pages, aggregates, dashboards) as they are cached
\* by their own read handlers at time 0: [key, L2 ttl, L1 ttl].
DerivedViews ==
    {[key |-> courses_list_key(h), ttl2 |-> COURSE_LIST_TTL, ttl1 |-> COURSE_LIST_TTL,
      kind |-> "list"] : h \in ListHashes}
    \cup {[key |-> analytics_course_key(c), ttl2 |-> COURSE_ANALYTICS_TTL,
           ttl1 |-> COURSE_ANALYTICS_TTL \div 2, kind |-> "analytics"] : c \in Courses}
    \cup {[key |-> analytics_platform_overview_key, ttl2 |-> PLATFORM_ANALYTICS_TTL,
           ttl1 |-> PLATFORM_ANALYTICS_TTL \div 2, kind |-> "overview"]}
    \cup {[key |-> user_dashboard_key(u), ttl2 |-> DASHBOARD_TTL, ttl1 |-> DASHBOARD_TTL,
           kind |-> "dashboard"] : u \in Users}
    \cup {[key |-> analytics_student_patterns_key(u), ttl2 |-> STUDENT_ANALYTICS_TTL,
           ttl1 |-> STUDENT_ANALYTICS_TTL \div 2, kind |-> "patterns"] : u \in Users}

ViewOf(k) == CHOOSE d \in DerivedViews : d.key = k

WarmL1 ==
    [k \in {d.key : d \in DerivedViews} |->
        [exp |-> ViewOf(k).ttl1, val |-> Payload(ViewOf(k).kind)]]

WarmL2 ==
    [k \in {d.key : d \in DerivedViews} |->
        [val |-> Dumps(Payload(ViewOf(k).kind)), exp |-> ViewOf(k).ttl2, type |-> "string"]]

\* ------------------------------------------------------------ cache warming
\* course_service.py line 20.
WARM_SORTS == <<"recent", "popular", "top_rated">>

\* _filters_key: the first page of the i-th warm sort order has its own digest.
WarmDigest(i) == i

\* A run of warm_courses_cache: the sort order the loop of line 215 is at,
\* warmed_ids, and the sub-tasks awaited so far (list pages by sort order,
\* single-course seeds by course id) with the ones that raised.
IdleJob == [pc |-> "idle", sort |-> 1, ids |-> {}, lists |-> {}, seeds |-> {}, failed |-> {}]

\* list_courses (lines 85-122) and get_course (lines 49-83) as the job awaits
\* them, one call per step.  L1 after the call: a live entry is kept, an L2
\* entry is decoded into L1, otherwise the value read from the source is
\* stored (get_course stores nothing when there is no document).
ReadThroughL1(key, val, ttl, t) ==
    LET m == MemGetStore(l1, key, t) IN
    IF Truthy(MemGetVal(l1, key, t)) THEN m
    ELSE IF key \in DOMAIN l2 THEN MemSet(m, key, Loads(l2[key].val), ttl, t)
    ELSE IF Truthy(val) THEN MemSet(m, key, val, ttl, t)
    ELSE m

\* L2 after the call: hit() or miss() counts it, a miss stores the encoded
\* value.
ReadThroughL2(key, val, ttl, t) ==
    IF Truthy(MemGetVal(l1, key, t)) \/ key \in DOMAIN l2 THEN RedisHIncr(l2, HITS_HASH)
    ELSE IF Truthy(val) THEN RedisSet(RedisHIncr(l2, MISSES_HASH), key, Dumps(val), ttl, t)
    ELSE RedisHIncr(l2, MISSES_HASH)

\* Every path of list_courses and get_course awaits a Redis command (hit,
\* r.get or miss): with L2 unreachable the call raises.  So does json.loads
\* (lines 71, 108) on an L2 payload that is not JSON.
ReadThroughRaises(key) ==
    \/ ~redisUp
    \/ /\ ~Truthy(MemGetVal(l1, key, now))
       /\ key \in DOMAIN l2
       /\ ~Decodable(l2[key].val)

\* The course ids on a list page: the documents of the collection.
PageIds == {c \in Courses : db[c] # 0}

\* scheduler.warm_courses (scheduler.py lines 35-37) starts a run.
warm_courses ==
    /\ job.pc \in {"idle", "ended"}
    /\ job' = [IdleJob EXCEPT !.pc = "lists"]
    /\ UNCHANGED <<cvars, probe, tvars, rec, in_progress, snaps, prd, aq>>

\* Lines 215-221: one iteration of the loop over WARM_SORTS.  There is no
\* try/except in warm_courses_cache: an exception of list_courses leaves
\* the function.
WarmList ==
    LET s == job.sort
        key == courses_list_key(WarmDigest(s))
        ids == job.ids \cup PageIds
    IN
    /\ job.pc = "lists"
    /\ IF ReadThroughRaises(key)
       THEN /\ l1' = MemGetStore(l1, key, now)
            /\ job' = [job EXCEPT !.pc = "ended", !.lists = @ \cup {s},
                                  !.failed = @ \cup {<<"list", s>>}]
            /\ UNCHANGED l2
       ELSE /\ l1' = ReadThroughL1(key, Payload("list"), COURSE_LIST_TTL, now)
            /\ l2' = ReadThroughL2(key, Payload("list"), COURSE_LIST_TTL, now)
            /\ job' = [job EXCEPT !.lists = @ \cup {s}, !.ids = ids,
                                  !.sort = IF s < Len(WARM_SORTS) THEN s + 1 ELSE s,
                                  !.pc = IF s < Len(WARM_SORTS) THEN "lists"
                                         ELSE IF ids = {} THEN "ended" ELSE "seeds"]
    /\ UNCHANGED <<db, pdb, now, redisUp, locks, rd, wr, inv, hist, probe, tvars,
                   rec, in_progress, snaps, prd, aq>>

\* Lines 223-224: one iteration of the loop over warmed_ids (a set: any
\* order).  An exception of get_course leaves the function.
WarmSeed ==
    \E c \in job.ids \ job.seeds :
        LET key == course_key(c)
            doc == IF db[c] # 0 THEN CourseDoc(c, db[c]) ELSE NoDoc
            done == job.seeds \cup {c}
        IN
        /\ job.pc = "seeds"
        /\ IF ReadThroughRaises(key)
           THEN /\ l1' = MemGetStore(l1, key, now)
                /\ job' = [job EXCEPT !.pc = "ended", !.seeds = done,
                                      !.failed = @ \cup {<<"seed", c>>}]
                /\ UNCHANGED l2
           ELSE /\ l1' = ReadThroughL1(key, doc, COURSE_TTL, now)
                /\ l2' = ReadThroughL2(key, doc, COURSE_TTL, now)
                /\ job' = [job EXCEPT !.seeds = done,
                                      !.pc = IF job.ids \subseteq done THEN "ended"
                                             ELSE "seeds"]
        /\ UNCHANGED <<db, pdb, now, redisUp, locks, rd, wr, inv, hist, probe, tvars,
                       rec, in_progress, snaps, prd, aq>>

warm_courses_cache == WarmList \/ WarmSeed

\* GET /analytics/platform/overview: platform_overview (lines 136-158)
\* reads the aggregate through the two tiers; it always has a result.
platform_overview ==
    LET key == analytics_platform_overview_key IN
    /\ IF AggregateRaises(key, now)
       THEN /\ l1' = MemGetStore(l1, key, now)
            /\ UNCHANGED l2
       ELSE /\ l1' = AggregateL1(key, PLATFORM_ANALYTICS_TTL, "overview", TRUE, now)
            /\ l2' = AggregateL2(key, PLATFORM_ANALYTICS_TTL, "overview", TRUE, now)
    /\ UNCHANGED <<db, pdb, now, redisUp, locks, rd, wr, inv, hist, chan, Others>>

\* ------------------------------------------- analytics reads, step by step
\* The same reads as they interleave in one process: _get_cache awaits the
\* L2 pipeline (lines 26-29), the aggregation and everything up to the
\* gather of _set_cache run without suspension (db.progress.aggregate is
\* called on the event loop), _set_cache awaits r.set (lines 45-48).  No
\* lock is taken.
AnalyticsViews ==
    {[key |-> analytics_course_key(c), ttl |-> COURSE_ANALYTICS_TTL, kind |-> "analytics"]
        : c \in Courses}
    \cup {[key |-> analytics_student_patterns_key(u), ttl |-> STUDENT_ANALYTICS_TTL,
            kind |-> "patterns"] : u \in Users}
    \cup {[key |-> analytics_platform_overview_key, ttl |-> PLATFORM_ANALYTICS_TTL,
            kind |-> "overview"]}

\* Whether the aggregation pipeline of the view returns a record (lines
\* 69-71, 111-113); platform_overview always has a result.
HasRecords(key) ==
    IF key[1] = "analytics:course" THEN HasProgress(key[2])
    ELSE IF key[1] = "analytics:student:patterns"
    THEN \E c \in Courses : pdb[<<key[2], c>>] # 0
    ELSE TRUE

\* Lines 55-57 and 22-29: L1 look-up; on a miss the L2 pipeline is awaited.
AStart(a, v) ==
    LET cached == MemGetVal(l1, v.key, now) IN
    /\ aq[a].pc = "idle"
    /\ l1' = MemGetStore(l1, v.key, now)
    /\ aq' = [aq EXCEPT ![a] =
                IF Truthy(cached) THEN IdleAnalytics
                ELSE [IdleAnalytics EXCEPT !.pc = "l2get", !.key = v.key, !.ttl = v.ttl,
                                           !.kind = v.kind,
                                           !.cold = v.key \notin DOMAIN l2]]
    /\ UNCHANGED <<db, pdb, l2, now, redisUp, locks, rd, wr, inv, hist, chan, probe,
                   connections, instructor_connections, ws, lis, rec, in_progress,
                   snaps, job, prd>>

\* Lines 30-40 and the compute that follows a miss: an L2 hit is decoded
\* into L1 and returned; a payload that is not JSON is deleted; on a miss
\* the aggregate is computed from the source, and returned uncached when
\* there is no record.  pipe.execute raises when L2 is unreachable.  The
\* gather of _set_cache starts in the same step: memory_cache.set never
\* suspends, so the L1 entry is written here and r.set is left in flight.
AL2Get(a) ==
    LET me == aq[a]
        cached_l2 == RedisGet(me.key)
        hit == Truthy(cached_l2) /\ Decodable(cached_l2)
    IN
    /\ me.pc = "l2get"
    /\ IF ~redisUp
       THEN /\ aq' = [aq EXCEPT ![a] = IdleAnalytics]
            /\ UNCHANGED <<l1, l2>>
       ELSE IF hit
       THEN /\ l1' = MemSet(l1, me.key, Loads(cached_l2), me.ttl \div 2, now)
            /\ aq' = [aq EXCEPT ![a] = IdleAnalytics]
            /\ UNCHANGED l2
       ELSE /\ l2' = RedisDelete(l2, {me.key})
            /\ aq' = [aq EXCEPT ![a] =
                        IF HasRecords(me.key)
                        THEN [me EXCEPT !.pc = "set",
                                        !.doc = Aggregated(me.key, me.kind, now)]
                        ELSE IdleAnalytics]
            /\ l1' = IF HasRecords(me.key)
                     THEN MemSet(l1, me.key, Aggregated(me.key, me.kind, now),
                                 me.ttl \div 2, now)
                     ELSE l1
    /\ UNCHANGED <<db, pdb, now, redisUp, locks, rd, wr, inv, hist, chan, probe,
                   connections, instructor_connections, ws, lis, rec, in_progress,
                   snaps, job, prd>>

\* _set_cache lines 42-48: the awaited r.set of the gather takes effect, or
\* raises with L2 unreachable.
ASet(a) ==
    LET me == aq[a] IN
    /\ me.pc = "set"
    /\ l2' = IF redisUp THEN RedisSet(l2, me.key, Dumps(me.doc), me.ttl, now) ELSE l2
    /\ aq' = [aq EXCEPT ![a] = IdleAnalytics]
    /\ UNCHANGED <<db, pdb, l1, now, redisUp, locks, rd, wr, inv, hist, chan, probe,
                   connections, instructor_connections, ws, lis, rec, in_progress,
                   snaps, job, prd>>

analytics_read(a) ==
    \/ \E v \in AnalyticsViews : AStart(a, v)
    \/ AL2Get(a)
    \/ ASet(a)

\* ------------------------------------------------------- scheduler jobs
\* tasks/scheduler.py warm_platform_overview (every 10 minutes): counts the
\* course documents and writes the result to L2 alone with ex=60*60; the
\* process cache is neither written nor invalidated.  With L2 unreachable
\* r.set raises and the job ends.
warm_platform_overview ==
    /\ IF redisUp
       THEN l2' = RedisSet(l2, analytics_platform_overview_key,
                           Dumps(Generated("overview", now)), 60 * 60, now)
       ELSE UNCHANGED l2
    /\ UNCHANGED <<db, pdb, l1, now, redisUp, locks, rd, wr, inv, hist, chan, Others>>

\* tasks/scheduler.py warm_course_analytics (every 5 minutes): for each of
\* the most recent courses a stub analytic is written to L2 alone with
\* ex=60*15.
RECURSIVE StubAnalytics(_, _, _)
StubAnalytics(store, ids, t) ==
    IF ids = {} THEN store
    ELSE LET c == CHOOSE x \in ids : TRUE IN
         StubAnalytics(RedisSet(store, analytics_course_key(c),
                                Dumps(Generated("analytics", t)), 60 * 15, t),
                       ids \ {c}, t)

warm_course_analytics ==
    /\ PageIds # {}
    /\ IF redisUp
       THEN l2' = StubAnalytics(l2, PageIds, now)
       ELSE UNCHANGED l2
    /\ UNCHANGED <<db, pdb, l1, now, redisUp, locks, rd, wr, inv, hist, chan, Others>>

InitCache ==
    /\ db \in [Courses -> {0, 1}]
    /\ pdb = [p \in Users \X Courses |-> 0]
    /\ \E warm \in BOOLEAN :
          /\ l1 = IF warm THEN WarmL1 ELSE EmptyMap
          /\ l2 = IF warm THEN WarmL2 ELSE EmptyMap
    /\ now = 0
    /\ redisUp = TRUE
    /\ locks = EmptyMap
    /\ rd = [r \in Readers |-> IdleReader]
    /\ wr = IdleWriter
    /\ inv = IdleInv
    /\ hist = [dbReads |-> [c \in Courses |-> 0], seen |-> [c \in Courses |-> {}],
               rerr |-> "none", ep |-> NoEpoch]
    /\ probe = [last |-> [k \in ProbeKeys |-> NoSet], got |-> NoGot]

\* The process has just been restarted: L1 (memory of the process) is empty,
\* L2 still holds the views and the documents cached by the previous run.
InitRestarted ==
    /\ db \in [Courses -> {0, 1}]
    /\ pdb = [p \in Users \X Courses |-> 0]
    /\ l1 = EmptyMap
    /\ l2 = [k \in DOMAIN WarmL2 \cup {course_key(c) : c \in {x \in Courses : db[x] # 0}} |->
               IF k \in DOMAIN WarmL2 THEN WarmL2[k]
               ELSE [val |-> Dumps(CourseDoc(k[2], db[k[2]])), exp |-> COURSE_TTL,
                     type |-> "string"]]
    /\ now = 0
    /\ redisUp = TRUE
    /\ locks = EmptyMap
    /\ rd = [r \in Readers |-> IdleReader]
    /\ wr = IdleWriter
    /\ inv = IdleInv
    /\ hist = [dbReads |-> [c \in Courses |-> 0], seen |-> [c \in Courses |-> {}],
               rerr |-> "none", ep |-> NoEpoch]
    /\ probe = [last |-> [k \in ProbeKeys |-> NoSet], got |-> NoGot]

\* No websocket is connected; main.py starts the listener task at start-up.
InitRealtime ==
    /\ connections = EmptyMap
    /\ instructor_connections = << >>
    /\ ws = [w \in Sockets |-> IdleSocket]
    /\ lis = IdleListener
    /\ chan = << >>

\* No recovery runs; the snapshot store is empty.
InitRecovery ==
    /\ rec = [p \in Reqs |-> IdleRec]
    /\ in_progress = [s \in Reqs |-> FALSE]
    /\ snaps = NoStore
    /\ job = IdleJob
    /\ prd = IdleProgressReader
    /\ aq = [a \in Readers |-> IdleAnalytics]

\* The snapshot store as earlier runs of the process may have left it:
\* empty, or a latest record whose blob is readable, unreadable or missing.
InitSnapshots ==
    /\ rec = [p \in Reqs |-> IdleRec]
    /\ in_progress = [s \in Reqs |-> FALSE]
    /\ job = IdleJob
    /\ prd = IdleProgressReader
    /\ aq = [a \in Readers |-> IdleAnalytics]
    /\ snaps \in {NoStore}
         \cup {StoreOf(1, b, SnapshotOf(WarmL2, 0)) : b \in {"ok", "corrupt", "missing"}}

\* cache_stats hashes as the reads of the process leave them.
StatsL2 ==
    [k \in {HITS_HASH, MISSES_HASH} |->
        [val |-> Payload("counter"), exp |-> 0, type |-> "hash"]]

\* Snapshot documents found in the backup directory: an empty one, one with
\* a list page and a hash, and one that also holds a key recorded with a
\* null value (the key expired between keys("*") and get).
BlobInputs ==
    LET page == [val |-> Dumps(Payload("list")), type |-> "string", ttl |-> ShortTtl]
        hits == [val |-> Dumps(Payload("counter")), type |-> "hash", ttl |-> 0 - 1]
        gone == [val |-> Dumps(NoDoc), type |-> "string", ttl |-> 0 - 2]
        two == Put(Put(EmptyMap, courses_list_key(1), page), HITS_HASH, hits)
    IN {EmptyMap, two, Put(two, analytics_platform_overview_key, gone)}

\* The backup endpoints: L2 holds derived views, cache_stats hashes, both or
\* nothing; the backup directory is empty or holds one readable blob.
InitBak ==
    /\ db \in [Courses -> {0, 1}]
    /\ pdb = [p \in Users \X Courses |-> 0]
    /\ l1 = EmptyMap
    /\ \E views, stats \in BOOLEAN :
          l2 = [k \in (IF views THEN DOMAIN WarmL2 ELSE {})
                      \cup (IF stats THEN DOMAIN StatsL2 ELSE {}) |->
                   IF k \in DOMAIN StatsL2 THEN StatsL2[k] ELSE WarmL2[k]]
    /\ now = 0
    /\ redisUp = TRUE
    /\ locks = EmptyMap
    /\ rd = [r \in Readers |-> IdleReader]
    /\ wr = IdleWriter
    /\ inv = IdleInv
    /\ hist = [dbReads |-> [c \in Courses |-> 0], seen |-> [c \in Courses |-> {}],
               rerr |-> "none", ep |-> NoEpoch]
    /\ probe = [last |-> [k \in ProbeKeys |-> NoSet], got |-> NoGot]
    /\ InitRealtime
    /\ rec = [p \in Reqs |-> IdleRec]
    /\ in_progress = [s \in Reqs |-> FALSE]
    /\ job = IdleJob
    /\ prd = IdleProgressReader
    /\ aq = [a \in Readers |-> IdleAnalytics]
    /\ snaps \in {NoStore} \cup {StoreOf(1, "ok", d) : d \in BlobInputs}

Init == InitCache /\ InitRealtime /\ InitRecovery

\* Every course exists and has a progress record, both tiers are empty,
\* and one subscriber is connected to each course's analytics.
InitWatched ==
    /\ db = [c \in Courses |-> 1]
    /\ pdb = [p \in Users \X Courses |-> 1]
    /\ l1 = EmptyMap
    /\ l2 = EmptyMap
    /\ now = 0
    /\ redisUp = TRUE
    /\ locks = EmptyMap
    /\ rd = [r \in Readers |-> IdleReader]
    /\ wr = IdleWriter
    /\ inv = IdleInv
    /\ hist = [dbReads |-> [c \in Courses |-> 0], seen |-> [c \in Courses |-> {}],
               rerr |-> "none", ep |-> NoEpoch]
    /\ probe = [last |-> [k \in ProbeKeys |-> NoSet], got |-> NoGot]
    /\ connections = [c \in Courses |-> {c}]
    /\ instructor_connections = << >>
    /\ ws = [w \in Sockets |->
               IF w \in Courses THEN [IdleSocket EXCEPT !.st = "open", !.c = w]
               ELSE IdleSocket]
    /\ lis = IdleListener
    /\ chan = << >>
    /\ InitRecovery

\* Both tiers empty (after the invalidation of a write, or a cold start),
\* the source holding any subset of the course and progress documents.
InitCold ==
    /\ db \in [Courses -> {0, 1}]
    /\ pdb \in [Users \X Courses -> {0, 1}]
    /\ l1 = EmptyMap
    /\ l2 = EmptyMap
    /\ now = 0
    /\ redisUp = TRUE
    /\ locks = EmptyMap
    /\ rd = [r \in Readers |-> IdleReader]
    /\ wr = IdleWriter
    /\ inv = IdleInv
    /\ hist = [dbReads |-> [c \in Courses |-> 0], seen |-> [c \in Courses |-> {}],
               rerr |-> "none", ep |-> NoEpoch]
    /\ probe = [last |-> [k \in ProbeKeys |-> NoSet], got |-> NoGot]
    /\ connections = EmptyMap
    /\ instructor_connections = << >>
    /\ ws = [w \in Sockets |-> IdleSocket]
    /\ lis = IdleListener
    /\ chan = << >>
    /\ rec = [p \in Reqs |-> IdleRec]
    /\ in_progress = [s \in Reqs |-> FALSE]
    /\ snaps = NoStore
    /\ job = IdleJob
    /\ prd = IdleProgressReader
    /\ aq = [a \in Readers |-> IdleAnalytics]

InitRec == InitCache /\ InitRealtime /\ InitSnapshots

\* Handlers of the course cache: readers, course writers, invalidation.
Next ==
    \/ \E r \in Readers : get_course(r)
    \/ course_write
    \/ invalidate_course_cache

Spec == Init /\ [][Next]_vars

\* Readers and the clock.
NextRead ==
    \/ \E r \in Readers : get_course(r)
    \/ Tick

SpecRead == Init /\ [][NextRead]_vars

\* The L1 cache alone, and the clock.
NextL1 ==
    \/ memory_cache
    \/ Tick

SpecL1 == Init /\ [][NextL1]_vars

\* Readers while L2 fails and comes back.
NextFault ==
    \/ \E r \in Readers : get_course(r)
    \/ RedisFail
    \/ RedisRecover

SpecFault == Init /\ [][NextFault]_vars

\* Course writes, the listener and the websocket connections.
NextRT ==
    \/ course_write
    \/ listen_analytics_updates
    \/ websocket

SpecRT == Init /\ [][NextRT]_vars

\* Course writes, the listener and the instructor websockets.
NextPlat ==
    \/ course_write
    \/ LisSubscribe
    \/ LisTake
    \/ LisPlatform
    \/ LisPSend
    \/ LisCompute
    \/ \E w \in Sockets, i \in Instructors : connect_instructor(w, i)
    \/ \E w \in Sockets : WsInitial(w)
    \/ \E w \in Sockets : WsBreak(w)
    \/ \E w \in Sockets : disconnect_instructor(w)

SpecPlat == Init /\ [][NextPlat]_vars

\* Course writes and the listener while L2 fails and comes back.  The
\* listener task is scheduled whenever it can run.
NextLis ==
    \/ course_write
    \/ LisSubscribe
    \/ LisLost
    \/ LisTake
    \/ LisPlatform
    \/ LisCompute
    \/ RedisFail
    \/ RedisRecover

SpecLis ==
    /\ Init /\ [][NextLis]_vars
    /\ WF_vars(LisSubscribe) /\ WF_vars(LisLost) /\ WF_vars(LisTake)
    /\ WF_vars(LisPlatform) /\ WF_vars(LisCompute)

\* The websocket routes while L2 fails and comes back.
NextWS ==
    \/ \E w \in Sockets, c \in Courses : connect_course(w, c)
    \/ \E w \in Sockets, i \in Instructors : connect_instructor(w, i)
    \/ \E w \in Sockets : WsInitial(w)
    \/ \E w \in Sockets : WsBreak(w)
    \/ \E w \in Sockets : disconnect_course(w)
    \/ \E w \in Sockets : disconnect_instructor(w)
    \/ RedisFail
    \/ RedisRecover

SpecWS == Init /\ [][NextWS]_vars

\* The scheduled warming of the course cache while L2 fails and comes back.
NextWarm ==
    \/ warm_courses
    \/ warm_courses_cache
    \/ Tick
    \/ RedisFail
    \/ RedisRecover

SpecWarm == Init /\ [][NextWarm]_vars

\* Reads of courses and of course aggregates while L2 payloads get damaged.
NextCorrupt ==
    \/ \E r \in Readers : get_course(r)
    \/ \E c \in Courses : course_performance(c)
    \/ \E c \in Courses : Corrupt(course_key(c))
    \/ \E c \in Courses : Corrupt(analytics_course_key(c))
    \/ Tick

InitCorrupt == InitRestarted /\ InitRealtime /\ InitRecovery

SpecCorrupt == InitCorrupt /\ [][NextCorrupt]_vars

\* Course writes and reads around restarts of the worker.
NextNode ==
    \/ course_write
    \/ \E r \in Readers : get_course(r)
    \/ Restart

SpecNode == Init /\ [][NextNode]_vars

\* Progress writes and progress reads.
NextProgress ==
    \/ progress_write
    \/ get_course_progress

SpecProgress == Init /\ [][NextProgress]_vars

\* Recovery requests while L2 fails and comes back.
\* Analytics reads, course reads and writes beside the scheduler's warming
\* jobs, under the clock.
NextSched ==
    \/ \E c \in Courses : course_performance(c)
    \/ warm_platform_overview
    \/ warm_course_analytics
    \/ platform_overview
    \/ Tick

SpecSched == Init /\ [][NextSched]_vars

\* Course reads on a node that can restart, under the clock: L1 is
\* refilled from L2 entries written earlier.
NextRefill ==
    \/ \E r \in Readers : get_course(r)
    \/ Restart
    \/ Tick

SpecRefill == Init /\ [][NextRefill]_vars

\* Readers of one process while L2 and the source fail and come back.
\* Every awaited call of a handler returns or raises (weak fairness of the
\* reader's steps); asyncio.Lock hands a released lock to its waiters in
\* the order they arrived (strong fairness of the acquisition).
NextLock ==
    \/ \E r \in Readers : get_course(r)
    \/ \E r \in Readers : RDbRaise(r)
    \/ RedisFail
    \/ RedisRecover

SpecLock ==
    /\ Init
    /\ [][NextLock]_vars
    /\ \A r \in Readers : WF_vars(RStep(r)) /\ SF_vars(RAcquire(r))

\* Reads of courses and of progress documents, some of which the source
\* does not hold.
NextAbsent ==
    \/ \E r \in Readers : get_course(r)
    \/ get_course_progress

SpecAbsent == InitCold /\ [][NextAbsent]_vars

\* Course writes whose mutation succeeds, finds nothing or raises, under
\* the clock.
NextFrame ==
    \/ course_write
    \/ \E op \in {"update_course_module", "replace_course"}, c \in Courses, a \in BOOLEAN :
          WRaise(op, c, a)
    \/ Tick

SpecFrame == Init /\ [][NextFrame]_vars

\* Analytics reads of one process side by side, on cold tiers.
NextAgg ==
    \/ \E a \in Readers : analytics_read(a)
    \/ Tick

SpecAgg == InitCold /\ [][NextAgg]_vars

\* Progress writes, the listener pushing to the subscribers, and
\* course_performance calls of other requests beside them.
NextPush ==
    \/ progress_write
    \/ \E a \in Readers, v \in {x \in AnalyticsViews : x.kind = "analytics"} : AStart(a, v)
    \/ \E a \in Readers : AL2Get(a)
    \/ \E a \in Readers : ASet(a)
    \/ LisSubscribe
    \/ LisTake
    \/ LisPlatform
    \/ LisCompute
    \/ LisSend

SpecPush == InitWatched /\ [][NextPush]_vars

NextRec ==
    \/ recovery
    \/ RedisFail
    \/ RedisRecover

SpecRec == InitRec /\ [][NextRec]_vars

\* Concurrent calls on one shared CacheRecoveryService while L2 fails and
\* comes back.
NextSvc ==
    \/ \E p \in Reqs, op \in {"auto_recovery", "health"} : RecOnService(p, op)
    \/ \E p \in Reqs : RecHPing(p)
    \/ \E p \in Reqs : RecHPing2(p)
    \/ \E p \in Reqs : RecPing(p)
    \/ \E p \in Reqs : RecLatest(p)
    \/ \E p \in Reqs : RecExec(p)
    \/ \E p \in Reqs : RecWarm(p)
    \/ RedisFail
    \/ RedisRecover

SpecSvc == InitRec /\ [][NextSvc]_vars

\* auto_recovery, manual_recovery and the health check on one shared
\* CacheRecoveryService while L2 fails and comes back.
NextGuard ==
    \/ \E p \in Reqs, op \in {"auto_recovery", "health"} : RecOnService(p, op)
    \/ \E p \in Reqs, name \in BackupNames, clear \in BOOLEAN :
          RecManualOnService(p, name, clear)
    \/ \E p \in Reqs : RecHPing(p)
    \/ \E p \in Reqs : RecHPing2(p)
    \/ \E p \in Reqs : RecPing(p)
    \/ \E p \in Reqs : RecLatest(p)
    \/ \E p \in Reqs : RecFlush(p)
    \/ \E p \in Reqs : RecExec(p)
    \/ \E p \in Reqs : RecWarm(p)
    \/ RedisFail
    \/ RedisRecover

SpecGuard == InitRec /\ [][NextGuard]_vars

\* Backups under one name, restores of a named backup (stored or not) by
\* one operator, and the clock.
NextBak ==
    \/ \E name \in StoredNames : create_backup(name)
    \/ \E name \in StoredNames : delete_backup(name)
    \/ \E name \in BackupNames, clear \in BOOLEAN :
          RecStart(Operator, "manual_recovery", name, clear)
    \/ RecFlush(Operator)
    \/ RecExec(Operator)
    \/ RecWarm(Operator)
    \/ Tick

SpecBak == InitBak /\ [][NextBak]_vars

\* ================================================================ claims
\* The cache keys invalidate_course_cache(c) is to remove.
InvalidatedKeys(c, store) ==
    {course_key(c), analytics_course_key(c)} \cup {k \in DOMAIN store : HasPrefix(k, "courses_list")}

Quiet(e) == e.intr = {} /\ e.post = {}

\* C1: among the get_course calls that run concurrently for one course id
\* and started while the key was in neither tier and the source held the
\* course, the source is read at most once and all return one document.
C1_SingleFlight ==
    \A c \in Courses : hist.dbReads[c] <= 1 /\ Cardinality(hist.seen[c]) <= 1

\* A caller that found the key absent, waited for the lock and was served
\* the document the lock holder had fetched.
C1_Witness ==
    \E r \in Readers :
        /\ rd[r].pc = "hit_lk" /\ rd[r].cold /\ ~rd[r].taint
        /\ hist.dbReads[rd[r].c] = 1
        /\ hist.seen[rd[r].c] = {rd[r].doc}

\* C2: when create_course or update_course_module has returned v and no
\* other handler was active between the write and the next get_course of
\* that course, that get_course returns v.
C2_ReadAfterWrite ==
    LET e == hist.ep IN
    (e.kind \in {"create_course", "update_course_module"} /\ e.phase = "fin" /\ Quiet(e))
        => e.nres = e.res

C2_Witness ==
    LET e == hist.ep IN
    /\ e.kind = "update_course_module" /\ e.phase = "fin" /\ Quiet(e)
    /\ e.nres = Ok(CourseDoc(e.c, 2))
    /\ e.nsrc = "l1"

\* C3, as stated: after invalidate_course_cache(c) has returned with no
\* reader concurrent to it, neither tier holds the course key, the course
\* analytics key or a list page, and the next get_course(c) reads the source.
C3_AsStated ==
    LET e == hist.ep IN
    (e.kind = "invalidate" /\ "reader" \notin e.intr /\ e.post = {})
        => /\ e.phase = "done" =>
                /\ InvalidatedKeys(e.c, l1) \cap DOMAIN l1 = {}
                /\ InvalidatedKeys(e.c, l2) \cap DOMAIN l2 = {}
           /\ e.phase = "fin" => e.nsrc = "db"

\* C3, amended: the same when neither a reader nor a writer is concurrent
\* to the invalidation.
C3_Invalidation ==
    LET e == hist.ep IN
    (e.kind = "invalidate" /\ Quiet(e))
        => /\ e.phase = "done" =>
                /\ InvalidatedKeys(e.c, l1) \cap DOMAIN l1 = {}
                /\ InvalidatedKeys(e.c, l2) \cap DOMAIN l2 = {}
           /\ e.phase = "fin" => e.nsrc = "db"

C3_Witness ==
    LET e == hist.ep IN
    /\ e.kind = "invalidate" /\ e.phase = "fin" /\ Quiet(e)
    /\ e.nsrc = "db" /\ e.nres = Ok(CourseDoc(e.c, 2))

\* C6: every successful mutating write has published exactly one event on
\* the channel of its subject, and one more on the platform channel when
\* its effect is platform-wide.
C6_PublishOnWrite ==
    LET e == hist.ep IN
    (e.kind \in CourseOps \cup ProgressOps /\ e.phase = "done")
        => /\ e.nsub = 1
           /\ e.nplat = IF PublishesPlatform(e.kind) THEN 1 ELSE 0

\* C4: a get_course that started with the key in neither tier while the
\* source held document d returns d and leaves the key in L1 and in L2; a
\* second get_course started before the TTL has elapsed returns d from L1
\* without a source call.
C4_ColdThenWarm ==
    LET e == hist.ep
        key == course_key(e.c) IN
    (e.kind = "read" /\ Quiet(e))
        => /\ e.phase \in {"done", "next", "fin"} =>
                /\ e.res = Ok(CourseDoc(e.c, db[e.c]))
                /\ e.src = "db"
           /\ (e.phase = "done" /\ now = e.at) =>
                /\ key \in DOMAIN l1 /\ l1[key].val = e.res.out /\ ~MemExpired(l1, key, now)
                /\ key \in DOMAIN l2 /\ Loads(l2[key].val) = e.res.out
           /\ (e.phase = "fin" /\ e.inTtl) =>
                /\ e.nres = e.res
                /\ e.nsrc = "l1"

\* The second read happened later than the first and inside the TTL.
C4_Witness ==
    LET e == hist.ep IN
    /\ e.kind = "read" /\ Quiet(e) /\ e.phase = "fin" /\ e.inTtl
    /\ e.at = 0 /\ now = TickLen
    /\ e.nsrc = "l1" /\ e.nres = e.res

\* C5: after set(K, v, T) with T > 0 a get(K) made before T has elapsed
\* returns v, a get(K) made after T has elapsed returns nothing and leaves
\* no entry for K in the table.
C5_TtlExpiry ==
    LET g == probe.got
        s == probe.last[g.k] IN
    (g.valid /\ s.set)
        => /\ g.at < s.at + s.ttl => g.out = s.val
           /\ g.at > s.at + s.ttl => (g.out = NoDoc /\ g.k \notin DOMAIN l1)

\* A get after the TTL that found the entry still in the table.
C5_Witness ==
    LET g == probe.got
        s == probe.last[g.k] IN
    /\ g.valid /\ s.set /\ s.ttl = LongTtl
    /\ g.at > s.at + s.ttl
    /\ g.out = NoDoc /\ g.k \notin DOMAIN l1

\* C7: when the listener has processed the event of an update_course_module
\* every connection that was registered for the course when the broadcast
\* began, and is still connected and working, has received the update.
C7_PushOnUpdate ==
    (lis.pc = "idle" /\ lis.event = "update_course_module")
        => \A w \in lis.reg : ws[w].st = "open" => ws[w].got

\* C8: no get_course ends in an error because L2 is unreachable, whether
\* the key was in L1 or not.
C8_ReadsSurviveOutage == hist.rerr = "none"

\* C9: at no time are two recoveries running.
C9_SingleFlight ==
    \A p, q \in Reqs : (p # q /\ Running(p)) => ~Running(q)

\* C10: an auto_recovery that found L2 unreachable has attempted to restore
\* the latest snapshot when there is one, and has run the warming jobs when
\* there is none or when the restore returned False or raised.
C10_FallbackToWarming ==
    \A p \in Reqs :
        (rec[p].pc \in {"idle", "hping2"} /\ rec[p].unhealthy)
            => /\ rec[p].backup => rec[p].restore # "none"
               /\ (~rec[p].backup \/ rec[p].restore \in {"false", "raised"}) => rec[p].warmed

\* C11: a restore with clear_existing of a snapshot written by create_backup
\* leaves in L2 exactly the keys the backup read, with their types and
\* values; a key without expiry stays without expiry and a key with a TTL
\* gets a TTL no greater than the one it had at backup time.
C11_Restored(p) ==
    /\ rec[p].pc = "exec" /\ rec'[p].restore = "true"
    /\ rec[p].clear /\ rec[p].snap.made
    /\ \A q \in Reqs \ {p} : rec[q] = IdleRec
C11_BackupRoundTrip ==
    [][\A p \in Reqs :
          C11_Restored(p) =>
              LET orig == rec[p].snap.orig IN
              /\ DOMAIN l2' = DOMAIN orig
              /\ \A k \in DOMAIN orig :
                    /\ l2'[k].type = orig[k].type
                    /\ l2'[k].val = orig[k].val
                    /\ IF orig[k].exp = 0 THEN l2'[k].exp = 0
                       ELSE /\ l2'[k].exp # 0
                            /\ l2'[k].exp - now <= orig[k].exp - rec[p].snap.at]_vars

\* C12: a restore_backup that found the blob of its snapshot missing or
\* unreadable has returned False: it has neither raised nor returned True.
C12_NoBlobNotRestored ==
    \A p \in Reqs :
        rec[p].blob \in {"missing", "corrupt"} => rec[p].restore = "false"

\* C13: when pipe.execute() meets a key whose replay fails, every other key
\* of the snapshot is in L2 afterwards and restore_backup returns True.
C13_ReplayIsolation ==
    [][\A p \in Reqs :
          (rec[p].pc = "exec" /\ rec'[p].failed) =>
              LET data == rec[p].snap.data IN
              /\ rec'[p].restore = "true"
              /\ \A k \in DOMAIN data \ ReplayFailed(l2, data) : k \in DOMAIN l2']_vars

\* C14: when a broadcast_course_update in which a send failed has ended,
\* the connections whose send failed are not in the subject's registry and
\* every other connection that was registered when the broadcast began and
\* is still connected and working has received the message.
C14_DeadRemovedOthersServed ==
    (lis.pc = "idle" /\ lis.c \in Courses /\ lis.failed # {})
        => /\ lis.failed \cap Registered(lis.c) = {}
           /\ \A w \in lis.reg \ lis.failed : ws[w].st = "open" => ws[w].got

\* C15: when the listener has processed a platform event in which a send
\* failed, every instructor connection that was registered when the fan-out
\* began and is still registered, connected and working has received the
\* overview.
C15_PlatformFanOut ==
    (lis.pc = "idle" /\ lis.c = Platform /\ lis.event # "none" /\ lis.failed # {})
        => \A w \in (lis.reg \ lis.failed) \cap InstrSockets(instructor_connections) :
              ws[w].st = "open" => ws[w].got

\* C17: a connection whose handler has ended is in no subscriber registry.
C17_ClosedUnregistered ==
    \A w \in Sockets : ws[w].st = "closed" => w \notin InRegistry

\* C16: the listener task never ends, an event whose processing fails
\* leaves the subscription as it was, and when L2 stays reachable from some
\* time on the listener ends up subscribed for good.
C16_ListenerResumes ==
    /\ [](lis.pc # "ended")
    /\ [][lis.pc \in {"platform", "compute"} => lis'.sub = lis.sub]_vars
    /\ (<>[]redisUp) => <>[]Subscribed
\* The listener has subscribed again after a loss and has taken an event
\* published since.
C16_Witness == Subscribed /\ lis.again /\ lis.after /\ lis.pc \in {"platform", "compute"}

\* C18: when a run of the course warming job has ended, every sub-task of
\* the job has been awaited, whether or not another one failed: the list
\* page of every warm sort order and the seed of every course id collected.
C18_SubTasksIsolated ==
    job.pc = "ended" =>
        /\ \A s \in 1..Len(WARM_SORTS) : s \in job.lists
        /\ job.ids \subseteq job.seeds

\* C19: a course write whose source-of-record mutation has succeeded does
\* not end in an error when the scan or the delete of the list keys fails:
\* no step of _invalidate_course_lists taken with L2 unreachable is the
\* return of an error to the caller.
C19_ScanFailureNotRequestFailure ==
    [][(wr.pc \in {"scan", "dellist"} /\ ~redisUp) => ~WReturn(wr, Err)]_vars

\* C20: a get_course that finds under its key an L2 payload that cannot be
\* deserialized goes on as on a miss (to the source-of-record) and the
\* corrupt entry is no longer in L2 afterwards.
C20_CorruptPayloadIsMiss ==
    [][\A r \in Readers :
          LET key == course_key(rd[r].c) IN
          (/\ rd[r].pc = "l2get"
           /\ redisUp
           /\ key \in DOMAIN l2
           /\ ~Decodable(l2[key].val)
           /\ rd'[r] # rd[r])
          => /\ rd'[r].pc = "miss"
             /\ key \notin DOMAIN l2' \/ Decodable(l2'[key].val)]_vars

\* C21: a health_check_with_recovery whose auto_recovery was rejected
\* because a recovery was in progress on its service reports the recovery
\* as not attempted.
C21_RejectedNotAttempted ==
    \A p \in Reqs :
        (rec[p].op = "health" /\ rec[p].res = "not_attempted") => ~rec[p].attempted

\* C22: an auto_recovery (alone or inside health_check_with_recovery) that
\* found L2 unreachable, restored no snapshot and whose warming jobs failed
\* does not report a successful recovery.
C22_FailedRecoveryUnsuccessful ==
    \A p \in Reqs :
        (/\ rec[p].op \in {"auto_recovery", "health"}
         /\ rec[p].pc \in {"idle", "hping2"}
         /\ rec[p].unhealthy
         /\ rec[p].restore # "true"
         /\ rec[p].warmfail)
        => rec[p].res # "true"

\* C23: when replace_course has returned v and the next get_course of that
\* course, with no other handler active in between, is served from L2, it
\* returns v.
C23_ReplaceThenL2Read ==
    LET e == hist.ep IN
    (e.kind = "replace_course" /\ e.phase = "fin" /\ Quiet(e) /\ e.nsrc = "l2")
        => e.nres = e.res

\* C24: in a create_course, update_course_module or complete_lesson the
\* source-of-record mutation comes before every cache deletion, every
\* cache deletion before every event publish, and every event publish
\* before the write-through of the primary key: a handler at a deletion, a
\* publish or the write-through holds the mutated document, one that has
\* published has no deletion left, and one that has written through has no
\* deletion and no publish left.
C24_HandlerOrder ==
    LET deleting == wr.pc \in {"delkey", "scan", "dellist", "delplat", "gdel"}
        publishing == wr.pc \in {"pub1", "pub2"}
        seeding == wr.pc \in {"set", "pset"}
    IN
    wr.op \in {"create_course", "update_course_module", "complete_lesson"} =>
        /\ (deleting \/ publishing \/ seeding) => Truthy(wr.doc)
        /\ (wr.nsub + wr.nplat > 0) => ~deleting
        /\ wr.seeded => ~deleting /\ ~publishing

\* C25: once track_video_watch_time for (user, course) has returned, and
\* until the next write, L1 holds no copy of the progress key older than
\* the document the write stored, whichever get_course_progress calls were
\* in flight during the write.
C25_NoStaleProgressInL1 ==
    LET e == hist.ep IN
    (e.kind = "track_video_watch_time" /\ e.phase = "done") =>
        \A u \in Users :
            LET key == progress_key(u, e.c) IN
            (key \in DOMAIN l1 /\ ~MemExpired(l1, key, now))
                => l1[key].val.ver >= e.res.out.ver

\* C26: in every reachable state, a key that is present and unexpired in
\* L1 holds a value at least as recent as the value L2 currently holds for
\* the same key, under reads, writes and the scheduler's warming jobs.
C26_L1AtLeastAsRecentAsL2 ==
    \A k \in DOMAIN l1 \cap DOMAIN l2 :
        (~MemExpired(l1, k, now) /\ l2[k].type = "string" /\ Decodable(l2[k].val))
            => l1[k].val.ver >= Loads(l2[k].val).ver

\* C27: whenever a key is present and unexpired in L1, its L1 expiry is no
\* later than the expiry L2 holds for the same key, also after L1 was
\* refilled from an L2 hit.
C27_L1ExpiryWithinL2 ==
    \A k \in DOMAIN l1 \cap DOMAIN l2 :
        (~MemExpired(l1, k, now) /\ l2[k].exp # 0)
            => (l1[k].exp # 0 /\ l1[k].exp <= l2[k].exp)

C30_FailedMutationTouchesNothing ==
    [][(wr.pc = "idle" /\ wr'.pc = "idle" /\ now' = now)
          => (l1' = l1 /\ l2' = l2 /\ chan' = chan)]_vars

\* The mutation of a cached course raised after the document was changed:
\* both tiers still hold the copy made before the call.
C30_Witness ==
    \E c \in Courses :
        /\ wr.pc = "idle"
        /\ db[c] = 2
        /\ course_key(c) \in DOMAIN l1 \cap DOMAIN l2
        /\ l1[course_key(c)].val.ver = 1
        /\ Loads(l2[course_key(c)].val).ver = 1

C32_DerivedKeysGone ==
    LET e == hist.ep
        u == e.res.out.id \div 100
        derived == {user_dashboard_key(u), analytics_course_key(e.c),
                    analytics_student_patterns_key(u), analytics_platform_overview_key}
    IN
    (e.kind \in ProgressOps /\ e.phase = "done")
        => derived \cap (DOMAIN l1 \cup DOMAIN l2) = {}

\* A watch-time update has returned at time 0 on a node that started with
\* the derived views in both tiers (the list page is still there).
C32_Witness ==
    /\ hist.ep.kind = "track_video_watch_time" /\ hist.ep.phase = "done"
    /\ now = 0
    /\ courses_list_key(1) \in DOMAIN l1 \cap DOMAIN l2
    /\ analytics_platform_overview_key \notin DOMAIN l1 \cup DOMAIN l2

\* C33: among the course_performance, student_patterns and
\* platform_overview calls that run at the same time in one process for
\* one key that was in neither tier, at most one computes the aggregate
\* from the source.
C33_AggregateComputedOnce ==
    \A v \in AnalyticsViews :
        Cardinality({a \in Readers :
                        aq[a].pc = "set" /\ aq[a].key = v.key /\ aq[a].cold}) <= 1

\* C34: among the get_course calls that run at the same time in one
\* process for a course the source does not hold, the look-up in the
\* source runs at most once: no caller is at the look-up after a call
\* beside it has already looked the course up and found nothing.
C34_NotFoundLookedUpOnce ==
    \A r \in Readers : ~(rd[r].pc = "dbfetch" /\ rd[r].dup /\ db[rd[r].c] = 0)

\* C35: the aggregate the listener pushes to a course's subscribers for a
\* lesson_completed or video_watch_time event reflects the progress record
\* that mutation wrote, whatever course_performance calls run beside it.
C35_PushedAggregateIsFresh ==
    [][(lis.pc = "compute" /\ lis'.pc = "send" /\ lis.event \in ProgressOps)
          => LET key == analytics_course_key(lis.c) IN
             key \in DOMAIN l1' /\ l1'[key].val.id >= lis.ver]_vars

\* C36: a broadcast_course_update that was suspended in a send ends without
\* RuntimeError although connect_course or disconnect_course changed the
\* subject's set meanwhile, and it has sent to every connection that was
\* registered when it began and is still open.
C36_BroadcastSurvivesRegistryChange ==
    [][(lis.pc = "send" /\ lis'.pc = "idle")
          => /\ ~SetChanged(lis.c)
             /\ \A w \in lis.snap : ws'[w].st = "open" => w \in lis.visited]_vars

\* C37: when the handler of an instructor connection ends, every other
\* connection of the platform registry is still registered: a connection
\* leaves the registry only by its own close or its own failed send.
C37_CloseKeepsOthersRegistered ==
    [][\A w \in Sockets :
          (ws[w].kind = "instructor" /\ ws[w].st # "closed" /\ ws'[w].st = "closed")
              => \A v \in InstrSockets(instructor_connections) \ {w} :
                    v \in InstrSockets(instructor_connections')]_vars

\* C38: whenever no auto_recovery or manual_recovery is running on a
\* recovery service its in-progress flag is clear, however the last one
\* ended (success, snapshot not found, exception in restore or warming), so
\* the next request on that service is not rejected as concurrent.
C38_GuardClearedAfterRecovery ==
    \A s \in Reqs : in_progress[s] => \E p \in Reqs : Running(p) /\ rec[p].svc = s

\* A manual_recovery whose restore raised has ended and a later request on
\* the same service has been accepted and is running.
C38_Witness ==
    \E p, q \in Reqs :
        /\ p # q
        /\ rec[p].op = "manual_recovery" /\ rec[p].pc = "idle" /\ rec[p].restore = "raised"
        /\ Running(q) /\ rec[q].svc = rec[p].svc

\* C39: after any sequence of create_backup and delete_backup calls every
\* record of the cache_backups collection names a blob file that exists, so
\* the record auto-recovery picks as the latest can be restored.
C39_RecordsNameExistingBlobs ==
    \A i \in DOMAIN snaps.recs : Blob(snaps.recs[i]) # "missing"

\* C40: a restore_backup that ends without success because the blob of its
\* snapshot is missing or unreadable, with clear_existing or without,
\* leaves the L2 keyspace as it was when it was called.
C40_FailedRestoreKeepsL2 ==
    [][\A p \in Reqs :
          (/\ rec[p].pc \in {"idle", "flush"}
           /\ rec'[p] # rec[p]
           /\ rec'[p].pc = "idle"
           /\ rec'[p].op = "manual_recovery"
           /\ rec'[p].blob \in {"missing", "corrupt"})
              => l2' = l2]_vars

====
